---- MODULE Spec2Model ----
(***************************************************************************)
(* Travel-agency manager: the booking creation orchestrator and pricing    *)
(* engine (server/src/handlers/bookings.ts) over the relational store      *)
(* declared in server/src/db/schema.ts, with the master-data handlers      *)
(* (hotels.ts, services.ts) that run beside it, the payment ledger         *)
(* (payments.ts) with its exchange rates, the expenses, the reports        *)
(* (reports.ts: profit/loss, outstanding invoices, hotel recapitulation),  *)
(* the dashboard, getBookingById, and the deletes of customers, hotels     *)
(* and services.                                                           *)
(*                                                                         *)
(* Every `await db...execute()` of a handler is one atomic step of the     *)
(* store; the code between two awaits runs with the step that precedes it. *)
(*                                                                         *)
(* Money.  The store keeps numeric(10,2) columns: they are modelled as     *)
(* integers in cents.  Percentages are numeric(5,2): integers in           *)
(* hundredths of a percent.  A JavaScript cost (cents * integer) stays in  *)
(* cents; a JavaScript selling price cost * (1 + pct / 100) is kept in     *)
(* units of 1/10000 cent (cost * (10000 + pct)), which is exact, and is    *)
(* rounded to cents only where the code hands it to a numeric(10,2)        *)
(* column.  Exchange rates are integers in ten-thousandths, and a payment's *)
(* amount in SAR (cents * rate) is rounded to cents the same way.  Binary   *)
(* floating-point noise is not modelled.                                   *)
(***************************************************************************)
EXTENDS Integers, Sequences, FiniteSets, TLC

\* ------------------------------------------------------------------ bounds
\* Largest wall-clock reading (Date.now()) of a run.
MaxClock == 1
\* Number of updateHotel / updateService calls of a run.
MaxUpdates == 1
\* Number of createPayment and createExpense calls and of exchange-rate
\* creations, updates and deletions of a run.
MaxLedgerOps == 2
\* Number of rows of the hotels table.
MaxHotels == 2

\* ------------------------------------------------------- program constants
\* An id no row ever has (the tests use 999 for it).
MissingId == 999
\* A percentage column holds hundredths of a percent (numeric(5,2)), so
\* 1 + pct / 100 is (Scale + pct) / Scale.
Scale == 10000
\* The master rows the tests seed: hotel 100.00 at 20.00 %, service 50.00 at 30.00 %.
SeedHotelCost == 10000
SeedHotelPct == 2000
SeedServiceCost == 5000
SeedServicePct == 3000
\* A field the caller left out of an update (undefined).
Undefined == -1
\* Exchange rates are kept in ten-thousandths: the rate column is
\* numeric(15,6), and the rates sent here have at most four decimals, which
\* it stores as they are.
RateScale == 10000

\* What updateHotel / updateService are sent: a cost of 0.05 or none, a
\* percentage of 10.00 % or none.
UpdateCosts == {5, Undefined}
UpdatePcts == {1000, Undefined}

BookingStatuses == {"draft", "confirmed", "cancelled", "completed"}

\* The createBooking invocations of a run: Spec runs one, SpecRace two
\* concurrently.
CallIds == {1, 2}

VARIABLES
  customers,               \* customersTable: the ids of its rows
  users,                   \* usersTable: the ids of its rows
  hotels,                  \* hotelsTable: rows [id, name, location, cost_price,
                           \*   selling_price_percentage]
  services,                \* servicesTable: rows [id, cost_price, selling_price_percentage]
  bookings,                \* bookingsTable: rows
  hotelBookingDetails,     \* hotelBookingDetailsTable: rows
  serviceBookingDetails,   \* serviceBookingDetailsTable: rows
  seqs,                    \* the serial sequences of the three tables above
  clock,                   \* the last wall-clock reading
  calls,                   \* createBooking invocations: position and locals
  budget,                  \* what is left of the bounds of a run
  payments,                \* paymentsTable: rows
  rates,                   \* currencyExchangeRatesTable: rows
  expenses,                \* expensesTable: rows
  payCalls,                \* createPayment invocations: position and locals
  rateCalls,               \* createCurrencyExchangeRate invocations
  invoices,                \* what getOutstandingInvoices returned last
  response,                \* what the last call of a one-statement handler returned
  delCalls,                \* deleteCustomer / deleteHotel / deleteService invocations
  dashCall,                \* the getDashboardStats invocation
  viewCall                 \* the getBookingById invocation

vars == <<customers, users, hotels, services, bookings, hotelBookingDetails,
          serviceBookingDetails, seqs, clock, calls, budget, payments, rates,
          expenses, payCalls, rateCalls, invoices, response, delCalls,
          dashCall, viewCall>>

tables == <<customers, users, hotels, services, bookings, hotelBookingDetails,
            serviceBookingDetails, seqs>>

\* The payment ledger, the exchange rates, the expenses, and the calls and
\* reports over them.
ledger == <<payments, rates, expenses, payCalls, rateCalls, invoices>>

\* The calls of the reports, the dashboard, the lookups and the deletes,
\* and what they returned.
admin == <<response, delCalls, dashCall, viewCall>>

\* ------------------------------------------------------------------ inputs
HotelLine(h, rooms, cin, cout) ==
  [hotel_id |-> h, room_type |-> "double", meal_plan |-> "breakfast",
   check_in_date |-> cin, check_out_date |-> cout, number_of_rooms |-> rooms]

ServiceLine(s, q) == [service_id |-> s, quantity |-> q]

\* Hotel carts: empty; one line (one or two rooms, two nights); a line whose
\* check-out is not after its check-in; a line on a missing hotel, first or
\* second; the same hotel twice.
HotelCarts ==
  { <<>>,
    << HotelLine(1, 1, 1, 3) >>,
    << HotelLine(1, 2, 1, 3) >>,
    << HotelLine(1, 1, 2, 2) >>,
    << HotelLine(MissingId, 1, 1, 3) >>,
    << HotelLine(1, 1, 1, 3), HotelLine(MissingId, 1, 1, 3) >>,
    << HotelLine(1, 1, 1, 3), HotelLine(1, 1, 1, 3) >> }

ServiceCarts ==
  { <<>>,
    << ServiceLine(1, 3) >>,
    << ServiceLine(MissingId, 1) >>,
    << ServiceLine(1, 1), ServiceLine(MissingId, 1) >> }

\* The cart of the handler's tests: two rooms, three services.
TestInput(cust) ==
  [customer_id |-> cust,
   hotel_bookings |-> << HotelLine(1, 2, 1, 3) >>,
   services |-> << ServiceLine(1, 3) >>]

\* createBooking(input, userId): every cart for an existing customer and
\* actor, and the test cart for a missing customer or a missing actor.
Requests ==
  { [input |-> [customer_id |-> 1, hotel_bookings |-> hb, services |-> sv],
     userId |-> 1] : hb \in HotelCarts, sv \in ServiceCarts }
  \cup { [input |-> TestInput(MissingId), userId |-> 1],
         [input |-> TestInput(1), userId |-> MissingId] }

\* Two concurrent callers send the test cart.
RaceRequests == { [input |-> TestInput(1), userId |-> 1] }

\* ------------------------------------------------------------ the store
\* numeric(10,2): a JavaScript selling price (units of 1/10000 cent, never
\* negative here) is rounded to cents, halves away from zero.
ToNumeric2(x) == (x + (Scale \div 2)) \div Scale

\* db.select().from(hotelsTable).where(eq(hotelsTable.id, id))
SelectHotel(id) == { h \in hotels : h.id = id }
SelectService(id) == { s \in services : s.id = id }

\* Mutant: the booking_number column without its unique constraint.
UniqueViolation_Dropped(number) == FALSE

\* booking_number text .unique()
UniqueViolation(number) == \E b \in bookings : b.booking_number = number

\* The foreign keys of bookingsTable.
BookingFkViolation(cust, user) == cust \notin customers \/ user \notin users

IdleCall ==
  [pc |-> "idle", input |-> TestInput(1), userId |-> 0, bookingNumber |-> -1,
   totalCostPrice |-> 0, totalSellingPrice |-> 0, booking |-> <<>>,
   i |-> 0, master |-> <<>>, error |-> ""]

\* ------------------------------------------------------------ createBooking
Fail(call, err) == [call EXCEPT !.pc = "done", !.error = err]

\* Mutant: the hotel line also multiplied by the nights of the stay.
HotelCostPrice_PerNight(hotelData, hotelBooking) ==
  hotelData.cost_price * hotelBooking.number_of_rooms
    * (hotelBooking.check_out_date - hotelBooking.check_in_date)

\* costPrice = parseFloat(hotelData.cost_price) * hotelBooking.number_of_rooms
\* (cents; the stay's dates do not enter)
HotelCostPrice(hotelData, hotelBooking) ==
  hotelData.cost_price * hotelBooking.number_of_rooms

\* costPrice = parseFloat(serviceData.cost_price) * serviceBooking.quantity
ServiceCostPrice(serviceData, serviceBooking) ==
  serviceData.cost_price * serviceBooking.quantity

\* Mutant: the percentage taken off the cost instead of added to it.
SellingPrice_Discount(costPrice, master) ==
  costPrice * (Scale - master.selling_price_percentage)

\* sellingPrice = costPrice * (1 + parseFloat(selling_price_percentage) / 100)
\* (units of 1/10000 cent)
SellingPrice(costPrice, master) ==
  costPrice * (Scale + master.selling_price_percentage)

\* Where the handler goes once its existence checks have passed.
FirstCalcPc(input) ==
  IF Len(input.hotel_bookings) > 0 THEN "calcHotel"
  ELSE IF Len(input.services) > 0 THEN "calcService"
  ELSE "insBooking"

\* const bookingNumber = `BK${Date.now()}`; totals start at 0.
GenerateBookingNumber(call, now) ==
  [call EXCEPT !.bookingNumber = now, !.totalCostPrice = 0,
               !.totalSellingPrice = 0, !.i = 1,
               !.pc = FirstCalcPc(call.input)]

StartCreateBooking(c, req) ==
  /\ calls[c].pc = "idle"
  /\ calls' = [calls EXCEPT ![c] = [IdleCall EXCEPT !.pc = "selCustomer",
                                      !.input = req.input,
                                      !.userId = req.userId]]
  /\ UNCHANGED <<admin, ledger, tables, clock, budget>>

\* Verify customer exists
SelectCustomer(c) ==
  /\ calls[c].pc = "selCustomer"
  /\ calls' = [calls EXCEPT ![c] =
       IF calls[c].input.customer_id \notin customers
       THEN Fail(@, "Customer not found")
       ELSE [@ EXCEPT !.pc = "selUser"]]
  /\ UNCHANGED <<admin, ledger, tables, clock, budget>>

\* Verify user exists
SelectUser(c) ==
  /\ calls[c].pc = "selUser"
  /\ calls' = [calls EXCEPT ![c] =
       IF calls[c].userId \notin users
       THEN Fail(@, "User not found")
       ELSE [@ EXCEPT !.pc = "selFirstHotel"]]
  /\ UNCHANGED <<admin, ledger, tables, clock, budget>>

\* Verify hotels exist: only hotelIds[0] is looked up.  With no hotel line
\* hotelIds[0] is undefined, which the driver binds as NULL: id = NULL
\* matches no row, and the call fails with 'Hotel not found'.
SelectFirstHotel(c) ==
  /\ calls[c].pc = "selFirstHotel"
  /\ LET call == calls[c]
         hotelIds == [k \in 1..Len(call.input.hotel_bookings) |->
                        call.input.hotel_bookings[k].hotel_id]
         hotelResults == IF Len(hotelIds) = 0 THEN {}
                         ELSE SelectHotel(hotelIds[1])
     IN IF hotelResults = {}
        THEN /\ calls' = [calls EXCEPT ![c] = Fail(@, "Hotel not found")]
             /\ UNCHANGED clock
        ELSE IF Len(call.input.services) > 0
        THEN /\ calls' = [calls EXCEPT ![c].pc = "selFirstService"]
             /\ UNCHANGED clock
        ELSE \E now \in clock..MaxClock :
               /\ calls' = [calls EXCEPT ![c] = GenerateBookingNumber(@, now)]
               /\ clock' = now
  /\ UNCHANGED <<admin, ledger, tables, budget>>

\* Verify services exist: only serviceIds[0] is looked up.
SelectFirstService(c) ==
  /\ calls[c].pc = "selFirstService"
  /\ IF SelectService(calls[c].input.services[1].service_id) = {}
     THEN /\ calls' = [calls EXCEPT ![c] = Fail(@, "Service not found")]
          /\ UNCHANGED clock
     ELSE \E now \in clock..MaxClock :
            /\ calls' = [calls EXCEPT ![c] = GenerateBookingNumber(@, now)]
            /\ clock' = now
  /\ UNCHANGED <<admin, ledger, tables, budget>>

\* totalCostPrice += costPrice; totalSellingPrice += sellingPrice
Accumulate(call, costPrice, sellingPrice) ==
  [call EXCEPT !.totalCostPrice = @ + costPrice,
               !.totalSellingPrice = @ + sellingPrice]

TheRow(rows) == CHOOSE r \in rows : TRUE

\* Calculate hotel costs: one select per hotel line; a line whose hotel is
\* not found adds nothing.
CalcHotel(c) ==
  /\ calls[c].pc = "calcHotel"
  /\ LET call == calls[c]
         hotelBooking == call.input.hotel_bookings[call.i]
         hotel == SelectHotel(hotelBooking.hotel_id)
         costPrice == HotelCostPrice(TheRow(hotel), hotelBooking)
         added == IF hotel = {} THEN call
                  ELSE Accumulate(call, costPrice,
                                  SellingPrice(costPrice, TheRow(hotel)))
     IN calls' = [calls EXCEPT ![c] =
          IF call.i < Len(call.input.hotel_bookings)
          THEN [added EXCEPT !.i = @ + 1]
          ELSE [added EXCEPT !.i = 1,
                  !.pc = IF Len(call.input.services) > 0
                         THEN "calcService" ELSE "insBooking"]]
  /\ UNCHANGED <<admin, ledger, tables, clock, budget>>

\* Calculate service costs: one select per service line.
CalcService(c) ==
  /\ calls[c].pc = "calcService"
  /\ LET call == calls[c]
         serviceBooking == call.input.services[call.i]
         service == SelectService(serviceBooking.service_id)
         costPrice == ServiceCostPrice(TheRow(service), serviceBooking)
         added == IF service = {} THEN call
                  ELSE Accumulate(call, costPrice,
                                  SellingPrice(costPrice, TheRow(service)))
     IN calls' = [calls EXCEPT ![c] =
          IF call.i < Len(call.input.services)
          THEN [added EXCEPT !.i = @ + 1]
          ELSE [added EXCEPT !.i = 1, !.pc = "insBooking"]]
  /\ UNCHANGED <<admin, ledger, tables, clock, budget>>

\* Mutant: the booking inserted as already confirmed.
NewBookingRow_Confirmed(call, id, now) ==
  [id |-> id,
   customer_id |-> call.input.customer_id,
   booking_number |-> call.bookingNumber,
   total_cost_price |-> call.totalCostPrice,
   total_selling_price |-> ToNumeric2(call.totalSellingPrice),
   status |-> "confirmed",
   payment_status |-> "pending",
   created_by |-> call.userId,
   created_at |-> now]

\* The row db.insert(bookingsTable).values({...}) adds; the totals go through
\* toString() into numeric(10,2) columns, status and payment_status are
\* given, created_at is the column's defaultNow().
NewBookingRow(call, id, now) ==
  [id |-> id,
   customer_id |-> call.input.customer_id,
   booking_number |-> call.bookingNumber,
   total_cost_price |-> call.totalCostPrice,
   total_selling_price |-> ToNumeric2(call.totalSellingPrice),
   status |-> "draft",
   payment_status |-> "pending",
   created_by |-> call.userId,
   created_at |-> now]

\* Where the handler goes after the booking row, or after a line's insert
\* or skip: the next hotel line, then the service lines, then the return.
FirstDetailPc(input) ==
  IF Len(input.hotel_bookings) > 0 THEN "selHotelDetail"
  ELSE IF Len(input.services) > 0 THEN "selServiceDetail"
  ELSE "done"

AfterHotelDetail(call) ==
  IF call.i < Len(call.input.hotel_bookings)
  THEN [call EXCEPT !.i = @ + 1, !.master = <<>>, !.pc = "selHotelDetail"]
  ELSE [call EXCEPT !.i = 1, !.master = <<>>,
          !.pc = IF Len(call.input.services) > 0
                 THEN "selServiceDetail" ELSE "done"]

AfterServiceDetail(call) ==
  IF call.i < Len(call.input.services)
  THEN [call EXCEPT !.i = @ + 1, !.master = <<>>, !.pc = "selServiceDetail"]
  ELSE [call EXCEPT !.i = 1, !.master = <<>>, !.pc = "done"]

\* Create booking.  The serial id is drawn before the constraints are
\* checked, so a rejected insert consumes it.  A rejected insert throws: the
\* catch block logs and rethrows, nothing is retried.  The store stamps the
\* row with the time of the insert, which is not before any earlier reading
\* of the clock.
InsertBooking(c) ==
  /\ calls[c].pc = "insBooking"
  /\ \E now \in clock..MaxClock :
     LET call == calls[c]
         id == seqs.booking + 1
         row == NewBookingRow(call, id, now)
     IN /\ clock' = now
        /\ seqs' = [seqs EXCEPT !.booking = id]
        /\ IF UniqueViolation(call.bookingNumber)
           THEN /\ calls' = [calls EXCEPT ![c] = Fail(@, "Conflict")]
                /\ UNCHANGED bookings
           ELSE IF BookingFkViolation(call.input.customer_id, call.userId)
           THEN /\ calls' = [calls EXCEPT ![c] = Fail(@, "Storage error")]
                /\ UNCHANGED bookings
           ELSE /\ bookings' = bookings \cup {row}
                /\ calls' = [calls EXCEPT ![c] =
                     [@ EXCEPT !.booking = <<row>>, !.i = 1,
                               !.pc = FirstDetailPc(call.input)]]
  /\ UNCHANGED <<admin, ledger, customers, users, hotels, services,
                 hotelBookingDetails, serviceBookingDetails, budget>>

\* Create hotel booking details: the select of one line.  A hotel that is
\* not found makes the loop skip the line.
SelectHotelDetail(c) ==
  /\ calls[c].pc = "selHotelDetail"
  /\ LET call == calls[c]
         hotel == SelectHotel(call.input.hotel_bookings[call.i].hotel_id)
     IN calls' = [calls EXCEPT ![c] =
          IF hotel = {} THEN AfterHotelDetail(call)
          ELSE [@ EXCEPT !.master = <<TheRow(hotel)>>, !.pc = "insHotelDetail"]]
  /\ UNCHANGED <<admin, ledger, tables, clock, budget>>

\* The row db.insert(hotelBookingDetailsTable).values({...}) adds.
NewHotelDetailRow(call, id) ==
  LET hotelBooking == call.input.hotel_bookings[call.i]
      costPrice == HotelCostPrice(call.master[1], hotelBooking)
  IN [id |-> id,
      booking_id |-> call.booking[1].id,
      hotel_id |-> hotelBooking.hotel_id,
      room_type |-> hotelBooking.room_type,
      meal_plan |-> hotelBooking.meal_plan,
      check_in_date |-> hotelBooking.check_in_date,
      check_out_date |-> hotelBooking.check_out_date,
      number_of_rooms |-> hotelBooking.number_of_rooms,
      cost_price |-> costPrice,
      selling_price |-> ToNumeric2(SellingPrice(costPrice, call.master[1]))]

\* The insert of one hotel line.  hotel_id references hotelsTable: the insert
\* is rejected when the hotel was deleted after the select.
InsertHotelDetail(c) ==
  /\ calls[c].pc = "insHotelDetail"
  /\ LET call == calls[c]
         id == seqs.hotelDetail + 1
         row == NewHotelDetailRow(call, id)
     IN /\ seqs' = [seqs EXCEPT !.hotelDetail = id]
        /\ IF SelectHotel(row.hotel_id) = {}
           THEN /\ calls' = [calls EXCEPT ![c] = Fail(@, "Storage error")]
                /\ UNCHANGED hotelBookingDetails
           ELSE /\ hotelBookingDetails' = hotelBookingDetails \cup {row}
                /\ calls' = [calls EXCEPT ![c] = AfterHotelDetail(call)]
  /\ UNCHANGED <<admin, ledger, customers, users, hotels, services, bookings,
                 serviceBookingDetails, clock, budget>>

\* Create service booking details: the select of one line.
SelectServiceDetail(c) ==
  /\ calls[c].pc = "selServiceDetail"
  /\ LET call == calls[c]
         service == SelectService(call.input.services[call.i].service_id)
     IN calls' = [calls EXCEPT ![c] =
          IF service = {} THEN AfterServiceDetail(call)
          ELSE [@ EXCEPT !.master = <<TheRow(service)>>,
                         !.pc = "insServiceDetail"]]
  /\ UNCHANGED <<admin, ledger, tables, clock, budget>>

\* The row db.insert(serviceBookingDetailsTable).values({...}) adds.
NewServiceDetailRow(call, id) ==
  LET serviceBooking == call.input.services[call.i]
      costPrice == ServiceCostPrice(call.master[1], serviceBooking)
  IN [id |-> id,
      booking_id |-> call.booking[1].id,
      service_id |-> serviceBooking.service_id,
      quantity |-> serviceBooking.quantity,
      cost_price |-> costPrice,
      selling_price |-> ToNumeric2(SellingPrice(costPrice, call.master[1]))]

\* The insert of one service line; service_id references servicesTable.
InsertServiceDetail(c) ==
  /\ calls[c].pc = "insServiceDetail"
  /\ LET call == calls[c]
         id == seqs.serviceDetail + 1
         row == NewServiceDetailRow(call, id)
     IN /\ seqs' = [seqs EXCEPT !.serviceDetail = id]
        /\ IF SelectService(row.service_id) = {}
           THEN /\ calls' = [calls EXCEPT ![c] = Fail(@, "Storage error")]
                /\ UNCHANGED serviceBookingDetails
           ELSE /\ serviceBookingDetails' = serviceBookingDetails \cup {row}
                /\ calls' = [calls EXCEPT ![c] = AfterServiceDetail(call)]
  /\ UNCHANGED <<admin, ledger, customers, users, hotels, services, bookings,
                 hotelBookingDetails, clock, budget>>

\* ------------------------------------------------------ updateBookingStatus
\* Mutant: the update also recalculates the selling price, to zero.
SetStatus_Recalculated(b, id, status) ==
  IF b.id = id THEN [b EXCEPT !.status = status, !.total_selling_price = 0]
  ELSE b

\* Mutant: the update has no where clause.
SetStatus_EveryRow(b, id, status) == [b EXCEPT !.status = status]

\* db.update(bookingsTable).set({status, updated_at}).where(id = id): any
\* target status is accepted; no row matched throws 'Booking not found'.
SetStatus(b, id, status) == IF b.id = id THEN [b EXCEPT !.status = status] ELSE b

\* The update statement.
UpdateBookingStatusRows(id, status) ==
  /\ bookings' = { SetStatus(b, id, status) : b \in bookings }
  /\ UNCHANGED <<delCalls, dashCall, viewCall, ledger, customers, users,
                 hotels, services, hotelBookingDetails,
                 serviceBookingDetails, seqs, clock, calls, budget>>

\* updateBookingStatus, where what it returns is not looked at.
UpdateBookingStatus(id, status) ==
  UpdateBookingStatusRows(id, status) /\ UNCHANGED response

\* What updateBookingStatus returns: results[0] of returning(), or the throw
\* when the update matched no row.
UpdateBookingStatusResult(id, status) ==
  LET results == { SetStatus(b, id, status) : b \in { x \in bookings : x.id = id } }
  IN [op |-> "updateBookingStatus",
      input |-> [id |-> id, status |-> status],
      error |-> IF results = {} THEN "Booking not found" ELSE "",
      rows |-> IF results = {} THEN <<>> ELSE << CHOOSE r \in results : TRUE >>]

\* updateBookingStatus with what it returns.
UpdateBookingStatusReturning(id, status) ==
  /\ UpdateBookingStatusRows(id, status)
  /\ response' = UpdateBookingStatusResult(id, status)

\* ------------------------------------------------- hotels.ts, services.ts
\* updateValues holds only the fields the caller supplied.
Patch(row, id, cost, pct) ==
  IF row.id # id THEN row
  ELSE [row EXCEPT
          !.cost_price = IF cost = Undefined THEN @ ELSE cost,
          !.selling_price_percentage = IF pct = Undefined THEN @ ELSE pct]

UpdateHotel(id, cost, pct) ==
  /\ budget.updates > 0
  /\ budget' = [budget EXCEPT !.updates = @ - 1]
  /\ hotels' = { Patch(h, id, cost, pct) : h \in hotels }
  /\ UNCHANGED <<admin, ledger, customers, users, services, bookings,
                 hotelBookingDetails,
                 serviceBookingDetails, seqs, clock, calls>>

UpdateService(id, cost, pct) ==
  /\ budget.updates > 0
  /\ budget' = [budget EXCEPT !.updates = @ - 1]
  /\ services' = { Patch(s, id, cost, pct) : s \in services }
  /\ UNCHANGED <<admin, ledger, customers, users, hotels, bookings,
                 hotelBookingDetails,
                 serviceBookingDetails, seqs, clock, calls>>

\* deleteHotel: refused while a hotel line references the hotel, by the
\* handler's own select and again by the foreign key at the delete.  Lines
\* are never removed, so the hotel goes exactly when no line references it
\* at the delete.
DeleteHotel(id) ==
  /\ SelectHotel(id) # {}
  /\ ~ \E d \in hotelBookingDetails : d.hotel_id = id
  /\ hotels' = hotels \ SelectHotel(id)
  /\ UNCHANGED <<admin, ledger, customers, users, services, bookings,
                 hotelBookingDetails,
                 serviceBookingDetails, seqs, clock, calls, budget>>

DeleteService(id) ==
  /\ SelectService(id) # {}
  /\ ~ \E d \in serviceBookingDetails : d.service_id = id
  /\ services' = services \ SelectService(id)
  /\ UNCHANGED <<admin, ledger, customers, users, hotels, bookings,
                 hotelBookingDetails,
                 serviceBookingDetails, seqs, clock, calls, budget>>

\* ------------------------------------------------------------ createPayment
\* What appRouter.createPayment is sent.  Amounts are in cents: 100.00 USD,
\* 10.00 IDR, 1500.00 and 300.00 SAR, an amount of zero and a negative one,
\* and payments on a booking that does not exist.
PaymentInput(b, amount, currency) ==
  [booking_id |-> b, amount |-> amount, currency |-> currency]

PaymentRequests ==
  { PaymentInput(1, 10000, "USD"),
    PaymentInput(1, 1000, "IDR"),
    PaymentInput(1, 150000, "SAR"),
    PaymentInput(1, 30000, "SAR"),
    PaymentInput(1, 0, "SAR"),
    PaymentInput(1, -10000, "USD"),
    PaymentInput(MissingId, 10000, "SAR"),
    PaymentInput(MissingId, 10000, "USD") }

\* The payments the report runs are fed: 500.00 SAR, which is above the
\* total of the test cart, on one created booking and 100.00 SAR on the other.
ReportPaymentRequests ==
  { PaymentInput(3, 50000, "SAR"), PaymentInput(4, 10000, "SAR") }

\* createPaymentInputSchema: amount is z.number().positive().
ValidPaymentInput(input) == input.amount > 0

IdlePayCall ==
  [pc |-> "idle", input |-> PaymentInput(0, 0, "SAR"), userId |-> 0,
   amountInSar |-> 0, exchangeRate |-> <<>>, payment |-> <<>>, error |-> ""]

RateNotFound(currency) ==
  IF currency = "USD" THEN "Exchange rate not found for USD to SAR"
  ELSE "Exchange rate not found for IDR to SAR"

\* db.select().from(currencyExchangeRatesTable)
\*   .where(and(eq(from_currency, from), eq(to_currency, to)))
SelectRate(from, to) ==
  { r \in rates : r.from_currency = from /\ r.to_currency = to }

\* Mutant: the rate looked up in either direction.
SelectRateForPayment_EitherWay(currency) ==
  SelectRate(currency, "SAR") \cup SelectRate("SAR", currency)

\* The lookup of createPayment: the exact ordered pair (currency, SAR).
SelectRateForPayment(currency) == SelectRate(currency, "SAR")

\* numeric(10,2) for amountInSar, which is kept in units of 1/RateScale
\* cent: rounded to cents, halves away from zero (it is never negative).
AmountToNumeric2(x) == (x + (RateScale \div 2)) \div RateScale

\* let amountInSar = input.amount (no lookup for SAR)
AmountInSarUnconverted(amount) == amount * RateScale

\* Mutant: the amount taken over as it is, whatever the rate.
AmountInSarConverted_AtPar(amount, rate) == amount * RateScale

\* amountInSar = input.amount * parseFloat(exchangeRate[0].rate)
AmountInSarConverted(amount, rate) == amount * rate.rate

\* Mutant: the existence check satisfied by any booking.
SelectBookingForPayment_Any(id) == bookings

\* db.select().from(bookingsTable).where(eq(bookingsTable.id, input.booking_id))
SelectBookingForPayment(id) == { b \in bookings : b.id = id }

\* The call arrives: the router validates the input against
\* createPaymentInputSchema, then the handler verifies that the booking
\* exists; a payment in SAR needs no rate.
CreatePaymentSelectBooking(c, req) ==
  /\ payCalls[c].pc \in {"idle", "done"}
  /\ budget.ledgerOps > 0
  /\ budget' = [budget EXCEPT !.ledgerOps = @ - 1]
  /\ LET call == [IdlePayCall EXCEPT !.input = req, !.userId = 1]
         booking == SelectBookingForPayment(req.booking_id)
     IN payCalls' = [payCalls EXCEPT ![c] =
          IF ~ ValidPaymentInput(req) THEN Fail(call, "InvalidInput")
          ELSE IF booking = {} THEN Fail(call, "Booking not found")
          ELSE IF req.currency # "SAR" THEN [call EXCEPT !.pc = "selRate"]
          ELSE [call EXCEPT !.pc = "insPayment",
                  !.amountInSar = AmountInSarUnconverted(req.amount)]]
  /\ UNCHANGED <<admin, tables, clock, calls, payments, rates, expenses, rateCalls,
                 invoices>>

\* Convert amount to SAR: exchangeRate[0] of the rows of the ordered pair
\* (the select has no ORDER BY, so any of them when there are several).
CreatePaymentSelectRate(c) ==
  /\ payCalls[c].pc = "selRate"
  /\ LET call == payCalls[c]
         exchangeRate == SelectRateForPayment(call.input.currency)
     IN IF exchangeRate = {}
        THEN payCalls' = [payCalls EXCEPT ![c] =
               Fail(call, RateNotFound(call.input.currency))]
        ELSE \E r \in exchangeRate :
               payCalls' = [payCalls EXCEPT ![c] =
                 [call EXCEPT !.pc = "insPayment", !.exchangeRate = <<r>>,
                    !.amountInSar = AmountInSarConverted(call.input.amount, r)]]
  /\ UNCHANGED <<admin, tables, clock, calls, budget, payments, rates, expenses,
                 rateCalls, invoices>>

\* The row db.insert(paymentsTable).values({...}) adds.
NewPaymentRow(call, id) ==
  [id |-> id,
   booking_id |-> call.input.booking_id,
   amount |-> call.input.amount,
   currency |-> call.input.currency,
   amount_in_sar |-> AmountToNumeric2(call.amountInSar),
   created_by |-> call.userId]

\* Mutant: the insert replaces the ledger by the new payment.
CreatePaymentInsert_Replace(c) ==
  /\ payCalls[c].pc = "insPayment"
  /\ LET call == payCalls[c]
         id == seqs.payment + 1
         row == NewPaymentRow(call, id)
     IN /\ seqs' = [seqs EXCEPT !.payment = id]
        /\ payments' = {row}
        /\ payCalls' = [payCalls EXCEPT ![c] =
             [call EXCEPT !.pc = "done", !.payment = <<row>>]]
  /\ UNCHANGED <<admin, customers, users, hotels, services, bookings,
                 hotelBookingDetails, serviceBookingDetails, clock, calls,
                 budget, rates, expenses, rateCalls, invoices>>

\* Create payment record.  booking_id and created_by are foreign keys.  The
\* booking row is not touched.
CreatePaymentInsert(c) ==
  /\ payCalls[c].pc = "insPayment"
  /\ LET call == payCalls[c]
         id == seqs.payment + 1
         row == NewPaymentRow(call, id)
     IN /\ seqs' = [seqs EXCEPT !.payment = id]
        /\ IF (\A b \in bookings : b.id # row.booking_id)
               \/ row.created_by \notin users
           THEN /\ payCalls' = [payCalls EXCEPT ![c] = Fail(call, "Storage error")]
                /\ UNCHANGED payments
           ELSE /\ payments' = payments \cup {row}
                /\ payCalls' = [payCalls EXCEPT ![c] =
                     [call EXCEPT !.pc = "done", !.payment = <<row>>]]
  /\ UNCHANGED <<admin, customers, users, hotels, services, bookings,
                 hotelBookingDetails, serviceBookingDetails, clock, calls,
                 budget, rates, expenses, rateCalls, invoices>>

\* ------------------------------------------------- currency exchange rates
\* The rates sent, in ten-thousandths: USD to SAR at 3.75, IDR to SAR at
\* 0.0002, and SAR to IDR at 0.5.
RateInput(from, to, rate) ==
  [from_currency |-> from, to_currency |-> to, rate |-> rate]

RateRequests ==
  { RateInput("USD", "SAR", 37500),
    RateInput("IDR", "SAR", 2),
    RateInput("SAR", "IDR", 5000) }

\* What updateCurrencyExchangeRate is sent as the new rate: 4.00.
UpdateRates == {40000}

IdleRateCall == [pc |-> "idle", input |-> RateInput("SAR", "SAR", 0), error |-> ""]

\* createCurrencyExchangeRate: check if a rate already exists for the pair.
CreateRateSelectExisting(c, req) ==
  /\ rateCalls[c].pc \in {"idle", "done"}
  /\ budget.ledgerOps > 0
  /\ budget' = [budget EXCEPT !.ledgerOps = @ - 1]
  /\ LET call == [IdleRateCall EXCEPT !.input = req]
     IN rateCalls' = [rateCalls EXCEPT ![c] =
          IF SelectRate(req.from_currency, req.to_currency) # {}
          THEN Fail(call, "Exchange rate already exists")
          ELSE [call EXCEPT !.pc = "insRate"]]
  /\ UNCHANGED <<admin, tables, clock, calls, payments, rates, expenses, payCalls,
                 invoices>>

\* createCurrencyExchangeRate: the insert.
CreateRateInsert(c) ==
  /\ rateCalls[c].pc = "insRate"
  /\ LET call == rateCalls[c]
         id == seqs.rate + 1
     IN /\ seqs' = [seqs EXCEPT !.rate = id]
        /\ rates' = rates \cup
             { [id |-> id, from_currency |-> call.input.from_currency,
                to_currency |-> call.input.to_currency,
                rate |-> call.input.rate] }
        /\ rateCalls' = [rateCalls EXCEPT ![c].pc = "done"]
  /\ UNCHANGED <<admin, customers, users, hotels, services, bookings,
                 hotelBookingDetails, serviceBookingDetails, clock, calls,
                 budget, payments, expenses, payCalls, invoices>>

\* db.update(currencyExchangeRatesTable).set({rate, updated_at}).where(id = id);
\* no row matched throws.  No payment is touched.
UpdateCurrencyExchangeRate(id, rate) ==
  /\ budget.ledgerOps > 0
  /\ budget' = [budget EXCEPT !.ledgerOps = @ - 1]
  /\ rates' = { IF r.id = id THEN [r EXCEPT !.rate = rate] ELSE r : r \in rates }
  /\ UNCHANGED <<admin, tables, clock, calls, payments, expenses, payCalls,
                 rateCalls, invoices>>

\* db.delete(currencyExchangeRatesTable).where(id = id); no row matched
\* throws.  No payment is touched.
DeleteCurrencyExchangeRate(id) ==
  /\ budget.ledgerOps > 0
  /\ budget' = [budget EXCEPT !.ledgerOps = @ - 1]
  /\ rates' = { r \in rates : r.id # id }
  /\ UNCHANGED <<admin, tables, clock, calls, payments, expenses, payCalls,
                 rateCalls, invoices>>

\* ------------------------------------------------------------ createExpense
\* What appRouter.createExpense is sent: 25.00 on the first booking or on a
\* booking that does not exist.
ExpenseRequests ==
  { [booking_id |-> 1, amount |-> 2500],
    [booking_id |-> MissingId, amount |-> 2500] }

\* createExpense: verify that the booking exists, then insert.  Bookings are
\* never deleted, so the insert finds the booking the select found and the
\* two statements are taken as one step.
\* Mutant: the expense is booked on the first booking.
NewExpenseRow_FirstBooking(req, id) ==
  [id |-> id, booking_id |-> 1, amount |-> req.amount, created_by |-> 1]

\* The row db.insert(expensesTable).values({...}) adds.
NewExpenseRow(req, id) ==
  [id |-> id, booking_id |-> req.booking_id, amount |-> req.amount,
   created_by |-> 1]

CreateExpenseRows(req) ==
  /\ budget.ledgerOps > 0
  /\ budget' = [budget EXCEPT !.ledgerOps = @ - 1]
  /\ IF \A b \in bookings : b.id # req.booking_id
     THEN UNCHANGED <<expenses, seqs>>
     ELSE /\ seqs' = [seqs EXCEPT !.expense = @ + 1]
          /\ expenses' = expenses \cup { NewExpenseRow(req, seqs.expense + 1) }
  /\ UNCHANGED <<delCalls, dashCall, viewCall, customers, users, hotels,
                 services, bookings, hotelBookingDetails,
                 serviceBookingDetails, clock, calls, payments, rates,
                 payCalls, rateCalls, invoices>>

\* createExpense, where what it returns is not looked at.
CreateExpense(req) == CreateExpenseRows(req) /\ UNCHANGED response

\* What createExpense returns: the row of returning(), or the throw
\* `Booking with ID ... not found`.
CreateExpenseResult(req) ==
  LET missing == \A b \in bookings : b.id # req.booking_id
  IN [op |-> "createExpense",
      input |-> req,
      error |-> IF missing THEN "Booking with ID not found" ELSE "",
      rows |-> IF missing THEN <<>>
               ELSE << NewExpenseRow(req, seqs.expense + 1) >>]

\* createExpense with what it returns.
CreateExpenseReturning(req) ==
  /\ CreateExpenseRows(req)
  /\ response' = CreateExpenseResult(req)

\* ------------------------------------------------- getOutstandingInvoices
RECURSIVE SumAmountInSar(_)
SumAmountInSar(rows) ==
  IF rows = {} THEN 0
  ELSE LET r == CHOOSE x \in rows : TRUE
       IN r.amount_in_sar + SumAmountInSar(rows \ {r})

\* leftJoin(paymentsTable, eq(bookingsTable.id, paymentsTable.booking_id))
PaymentsOfBooking(id) == { p \in payments : p.booking_id = id }

\* Mutant: paid_amount summed over the whole ledger.
OutstandingInvoice_WholeLedger(b) ==
  [booking_id |-> b.id,
   booking_number |-> b.booking_number,
   total_amount |-> b.total_selling_price,
   paid_amount |-> SumAmountInSar(payments),
   outstanding_amount |-> b.total_selling_price - SumAmountInSar(payments),
   created_at |-> b.created_at]

\* One group of the query and its row of the result: paid_amount is
\* COALESCE(sum(amount_in_sar), '0') over the payments joined to the booking,
\* outstanding_amount is totalAmount - paidAmount.
OutstandingInvoice(b) ==
  [booking_id |-> b.id,
   booking_number |-> b.booking_number,
   total_amount |-> b.total_selling_price,
   paid_amount |-> SumAmountInSar(PaymentsOfBooking(b.id)),
   outstanding_amount |->
     b.total_selling_price - SumAmountInSar(PaymentsOfBooking(b.id)),
   created_at |-> b.created_at]

\* from bookings inner join customers where payment_status = 'pending',
\* grouped by booking.
OutstandingInvoiceRows ==
  { OutstandingInvoice(b) :
      b \in { x \in bookings : /\ x.customer_id \in customers
                              /\ x.payment_status = "pending" } }

\* orderBy(desc(bookingsTable.created_at)): the rows in any order that has
\* created_at descending; rows of equal created_at come in an order the
\* store is free to choose.
OutstandingInvoiceOrders ==
  LET n == Cardinality(OutstandingInvoiceRows)
  IN { s \in [1..n -> OutstandingInvoiceRows] :
         /\ \A i \in 1..n : \A j \in 1..n : s[i] = s[j] => i = j
         /\ \A i \in 1..n : \A j \in 1..n :
              i < j => s[i].created_at >= s[j].created_at }

\* getOutstandingInvoices: one query; invoices keeps what the call returned.
GetOutstandingInvoices ==
  /\ \E s \in OutstandingInvoiceOrders : invoices' = s
  /\ UNCHANGED <<admin, tables, clock, calls, budget, payments, rates, expenses,
                 payCalls, rateCalls>>

\* ------------------------------------------------------------ one-statement calls
\* Before any call has returned.
NoResponse ==
  [op |-> "none", input |-> [id |-> Undefined], error |-> "", rows |-> <<>>]

\* sum(column) of SQL: the sum of a column given as the function from the
\* rows to their values.
RECURSIVE SumOver(_)
SumOver(column) ==
  IF DOMAIN column = {} THEN 0
  ELSE LET r == CHOOSE x \in DOMAIN column : TRUE
       IN column[r] + SumOver([x \in DOMAIN column \ {r} |-> column[x]])

\* The rows of a set in every order.
Orders(rows) ==
  LET n == Cardinality(rows)
  IN { s \in [1..n -> rows] : \A i \in 1..n : \A j \in 1..n : s[i] = s[j] => i = j }

\* ------------------------------------------------------- getProfitLossReport
\* The dates a report is asked for; Undefined is a bound left out.
ReportDates == {Undefined, 0, 1}

\* leftJoin(expensesTable, eq(bookingsTable.id, expensesTable.booking_id))
ExpensesOfBooking(id) == { e \in expenses : e.booking_id = id }

\* Mutant: the end of the window is exclusive.
ProfitLossConditions_OpenEnd(b, startDate, endDate) ==
  /\ startDate # Undefined => b.created_at >= startDate
  /\ endDate # Undefined => b.created_at < endDate

\* if (startDate) gte(created_at, startDate); if (endDate) lte(created_at,
\* endDate); and(...conditions), or no where clause with no condition.
ProfitLossConditions(b, startDate, endDate) ==
  /\ startDate # Undefined => b.created_at >= startDate
  /\ endDate # Undefined => b.created_at <= endDate

\* Mutant: the profit does not subtract the expenses.
ProfitLossRow_Gross(b) ==
  LET total_expenses == SumOver([e \in ExpensesOfBooking(b.id) |-> e.amount])
  IN [booking_id |-> b.id,
      booking_number |-> b.booking_number,
      total_selling_price |-> b.total_selling_price,
      total_cost_price |-> b.total_cost_price,
      total_expenses |-> total_expenses,
      profit |-> b.total_selling_price - b.total_cost_price,
      created_at |-> b.created_at]

\* One group of the query and its row of the result: total_expenses is
\* COALESCE(sum(expenses.amount), '0') over the expenses joined to the
\* booking, profit is selling price - cost price - expenses.  (The
\* customer's name, which the row also carries, is not modelled.)
ProfitLossRow(b) ==
  LET total_expenses == SumOver([e \in ExpensesOfBooking(b.id) |-> e.amount])
  IN [booking_id |-> b.id,
      booking_number |-> b.booking_number,
      total_selling_price |-> b.total_selling_price,
      total_cost_price |-> b.total_cost_price,
      total_expenses |-> total_expenses,
      profit |-> b.total_selling_price - b.total_cost_price - total_expenses,
      created_at |-> b.created_at]

\* from bookings inner join customers, where the conditions hold, grouped by
\* booking.
ProfitLossRows(startDate, endDate) ==
  { ProfitLossRow(b) :
      b \in { x \in bookings : /\ x.customer_id \in customers
                              /\ ProfitLossConditions(x, startDate, endDate) } }

\* orderBy(desc(bookingsTable.created_at)): rows of equal created_at come in
\* an order the store is free to choose.
ProfitLossOrders(startDate, endDate) ==
  { s \in Orders(ProfitLossRows(startDate, endDate)) :
      \A i \in DOMAIN s : \A j \in DOMAIN s :
        i < j => s[i].created_at >= s[j].created_at }

\* getProfitLossReport(startDate, endDate): one query.
GetProfitLossReport(startDate, endDate) ==
  /\ \E s \in ProfitLossOrders(startDate, endDate) :
       response' = [op |-> "getProfitLossReport",
                    input |-> [startDate |-> startDate, endDate |-> endDate],
                    error |-> "",
                    rows |-> s]
  /\ UNCHANGED <<tables, clock, calls, budget, ledger, delCalls, dashCall,
                 viewCall>>

\* ------------------------------------------------------------- createHotel
\* What appRouter.createHotel is sent: a second hotel of the name and
\* location of the first, or a hotel elsewhere.
HotelInputs ==
  { [name |-> "Test Hotel", location |-> "Test Location",
     cost_price |-> SeedHotelCost, selling_price_percentage |-> SeedHotelPct],
    [name |-> "Grand Hotel", location |-> "Mecca",
     cost_price |-> SeedHotelCost, selling_price_percentage |-> SeedHotelPct] }

\* createHotel: one insert; the table has no unique column beside the id.
\* No hotel is deleted where hotels are created, so the serial id is the
\* number of hotels plus one.
CreateHotel(input) ==
  /\ Cardinality(hotels) < MaxHotels
  /\ hotels' = hotels \cup
       { [id |-> Cardinality(hotels) + 1, name |-> input.name,
          location |-> input.location, cost_price |-> input.cost_price,
          selling_price_percentage |-> input.selling_price_percentage] }
  /\ UNCHANGED <<customers, users, services, bookings, hotelBookingDetails,
                 serviceBookingDetails, seqs, clock, calls, budget, ledger,
                 admin>>

\* --------------------------------------------- getHotelBookingRecapitulation
\* from hotelBookingDetails inner join hotels inner join bookings where
\* created_at is between startDate and endDate.
RecapLines(startDate, endDate) ==
  { d \in hotelBookingDetails :
      /\ \E h \in hotels : h.id = d.hotel_id
      /\ \E b \in bookings : /\ b.id = d.booking_id
                             /\ b.created_at >= startDate
                             /\ b.created_at <= endDate }

\* groupBy(hotelsTable.name, hotelsTable.location, room_type, meal_plan)
RecapKey(d) ==
  LET h == CHOOSE x \in hotels : x.id = d.hotel_id
  IN [hotel_name |-> h.name, hotel_location |-> h.location,
      room_type |-> d.room_type, meal_plan |-> d.meal_plan]

\* One group and its row of the result.
RecapRow(key, lines) ==
  LET group == { d \in lines : RecapKey(d) = key }
      total_cost == SumOver([d \in group |-> d.cost_price])
      total_revenue == SumOver([d \in group |-> d.selling_price])
  IN [hotel_name |-> key.hotel_name,
      hotel_location |-> key.hotel_location,
      room_type |-> key.room_type,
      meal_plan |-> key.meal_plan,
      total_rooms |-> SumOver([d \in group |-> d.number_of_rooms]),
      total_nights |-> Cardinality(group),
      total_cost |-> total_cost,
      total_revenue |-> total_revenue,
      profit |-> total_revenue - total_cost,
      booking_count |-> Cardinality({ d.booking_id : d \in group })]

RecapRows(startDate, endDate) ==
  LET lines == RecapLines(startDate, endDate)
  IN { RecapRow(key, lines) : key \in { RecapKey(d) : d \in lines } }

\* getHotelBookingRecapitulation(startDate, endDate): one query.  Its rows
\* come ordered by hotel name and room type; the model leaves the order open.
GetHotelBookingRecapitulation(startDate, endDate) ==
  /\ \E s \in Orders(RecapRows(startDate, endDate)) :
       response' = [op |-> "getHotelBookingRecapitulation",
                    input |-> [startDate |-> startDate, endDate |-> endDate],
                    error |-> "",
                    rows |-> s]
  /\ UNCHANGED <<tables, clock, calls, budget, ledger, delCalls, dashCall,
                 viewCall>>

\* --------------------------------------------------------- getDashboardStats
IdleDashCall ==
  [pc |-> "idle", customer_count |-> 0, booking_count |-> 0,
   totalSellingPrice |-> 0, totalCostPrice |-> 0, totalExpenses |-> 0,
   totalPayments |-> 0, total_profit |-> 0, outstanding_payments |-> 0]

Max(a, b) == IF a >= b THEN a ELSE b

\* Mutant: the difference is returned as it is.
OutstandingPayments_Signed(totalSellingPrice, totalPayments) ==
  totalSellingPrice - totalPayments

\* Math.max(0, totalSellingPrice - totalPayments)
OutstandingPayments(totalSellingPrice, totalPayments) ==
  Max(0, totalSellingPrice - totalPayments)

\* select count() from customers
DashboardCountCustomers ==
  /\ dashCall.pc \in {"idle", "done"}
  /\ dashCall' = [IdleDashCall EXCEPT !.pc = "countBookings",
                                      !.customer_count = Cardinality(customers)]
  /\ UNCHANGED <<tables, clock, calls, budget, ledger, response, delCalls,
                 viewCall>>

\* select count() from bookings
DashboardCountBookings ==
  /\ dashCall.pc = "countBookings"
  /\ dashCall' = [dashCall EXCEPT !.pc = "sumBookings",
                                  !.booking_count = Cardinality(bookings)]
  /\ UNCHANGED <<tables, clock, calls, budget, ledger, response, delCalls,
                 viewCall>>

\* select sum(total_selling_price), sum(total_cost_price) from bookings
DashboardSumBookings ==
  /\ dashCall.pc = "sumBookings"
  /\ dashCall' =
       [dashCall EXCEPT
          !.pc = "sumExpenses",
          !.totalSellingPrice = SumOver([b \in bookings |-> b.total_selling_price]),
          !.totalCostPrice = SumOver([b \in bookings |-> b.total_cost_price])]
  /\ UNCHANGED <<tables, clock, calls, budget, ledger, response, delCalls,
                 viewCall>>

\* select sum(amount) from expenses, then total_profit
DashboardSumExpenses ==
  /\ dashCall.pc = "sumExpenses"
  /\ LET totalExpenses == SumOver([e \in expenses |-> e.amount])
     IN dashCall' =
          [dashCall EXCEPT
             !.pc = "sumPayments",
             !.totalExpenses = totalExpenses,
             !.total_profit = dashCall.totalSellingPrice
                                - dashCall.totalCostPrice - totalExpenses]
  /\ UNCHANGED <<tables, clock, calls, budget, ledger, response, delCalls,
                 viewCall>>

\* select sum(amount_in_sar) from payments, then the return
DashboardSumPayments ==
  /\ dashCall.pc = "sumPayments"
  /\ LET totalPayments == SumOver([p \in payments |-> p.amount_in_sar])
     IN dashCall' =
          [dashCall EXCEPT
             !.pc = "done",
             !.totalPayments = totalPayments,
             !.outstanding_payments =
                OutstandingPayments(dashCall.totalSellingPrice, totalPayments)]
  /\ UNCHANGED <<tables, clock, calls, budget, ledger, response, delCalls,
                 viewCall>>

\* ------------------------------------------------------------ getBookingById
IdleViewCall ==
  [pc |-> "idle", id |-> Undefined, null |-> FALSE, booking |-> <<>>,
   hotelBookings |-> {}, serviceBookings |-> {}]

\* select from hotelBookingDetails where booking_id = id
HotelBookingsOf(id) == { d \in hotelBookingDetails : d.booking_id = id }

\* select from serviceBookingDetails where booking_id = id
ServiceBookingsOf(id) == { d \in serviceBookingDetails : d.booking_id = id }

\* The select of the booking; return null when there is none.
GetBookingByIdSelectBooking(id) ==
  /\ viewCall.pc \in {"idle", "done"}
  /\ LET rows == { b \in bookings : b.id = id }
     IN viewCall' =
          IF rows = {}
          THEN [IdleViewCall EXCEPT !.pc = "done", !.id = id, !.null = TRUE]
          ELSE [IdleViewCall EXCEPT !.pc = "selectHotels", !.id = id,
                                    !.booking = << CHOOSE b \in rows : TRUE >>]
  /\ UNCHANGED <<tables, clock, calls, budget, ledger, response, delCalls,
                 dashCall>>

\* The select of the hotel lines.
GetBookingByIdSelectHotels ==
  /\ viewCall.pc = "selectHotels"
  /\ viewCall' = [viewCall EXCEPT !.pc = "selectServices",
                                  !.hotelBookings = HotelBookingsOf(viewCall.id)]
  /\ UNCHANGED <<tables, clock, calls, budget, ledger, response, delCalls,
                 dashCall>>

\* The select of the service lines, and the return.
GetBookingByIdSelectServices ==
  /\ viewCall.pc = "selectServices"
  /\ viewCall' = [viewCall EXCEPT !.pc = "done",
                                  !.serviceBookings = ServiceBookingsOf(viewCall.id)]
  /\ UNCHANGED <<tables, clock, calls, budget, ledger, response, delCalls,
                 dashCall>>

\* ------------------------------- deleteCustomer, deleteHotel, deleteService
\* The three handlers statement by statement: the select of the referencing
\* rows and the throw when there is one, then the delete, which the foreign
\* key of the referencing table rejects while a row references the record.
DeleteKinds == {"customer", "hotel", "service"}

IdleDelCall == [pc |-> "idle", id |-> Undefined, error |-> ""]

\* The rows that reference a record.
BookingsOfCustomer(id) == { b \in bookings : b.customer_id = id }
LinesOfHotel(id) == { d \in hotelBookingDetails : d.hotel_id = id }
LinesOfService(id) == { d \in serviceBookingDetails : d.service_id = id }

\* Mutant: the tables carry no foreign key.
DeleteFkViolation_Dropped(references) == FALSE

\* references(() => table.id): the delete of a referenced row is rejected.
DeleteFkViolation(references) == references # {}

\* After the select: throw `Cannot delete ... with existing bookings`, or go
\* on to the delete.
DeleteSelected(id, references) ==
  IF references # {}
  THEN [pc |-> "done", id |-> id, error |-> "Cannot delete with existing bookings"]
  ELSE [pc |-> "delete", id |-> id, error |-> ""]

\* After the delete: the store's rejection, the throw when no row was
\* deleted, or the return.
DeleteReturned(call, references, present) ==
  [call EXCEPT !.pc = "done",
               !.error = IF DeleteFkViolation(references) THEN "Storage error"
                         ELSE IF ~ present THEN "not found"
                         ELSE ""]

DeleteCustomerCountBookings(id) ==
  /\ delCalls["customer"].pc \in {"idle", "done"}
  /\ delCalls' = [delCalls EXCEPT
                    !["customer"] = DeleteSelected(id, BookingsOfCustomer(id))]
  /\ UNCHANGED <<tables, clock, calls, budget, ledger, response, dashCall,
                 viewCall>>

DeleteCustomerDelete ==
  /\ delCalls["customer"].pc = "delete"
  /\ LET call == delCalls["customer"]
         references == BookingsOfCustomer(call.id)
     IN /\ delCalls' = [delCalls EXCEPT
                          !["customer"] =
                             DeleteReturned(call, references, call.id \in customers)]
        /\ customers' = IF DeleteFkViolation(references) THEN customers
                        ELSE customers \ {call.id}
  /\ UNCHANGED <<users, hotels, services, bookings, hotelBookingDetails,
                 serviceBookingDetails, seqs, clock, calls, budget, ledger,
                 response, dashCall, viewCall>>

DeleteHotelSelectBookings(id) ==
  /\ delCalls["hotel"].pc \in {"idle", "done"}
  /\ delCalls' = [delCalls EXCEPT
                    !["hotel"] = DeleteSelected(id, LinesOfHotel(id))]
  /\ UNCHANGED <<tables, clock, calls, budget, ledger, response, dashCall,
                 viewCall>>

DeleteHotelDelete ==
  /\ delCalls["hotel"].pc = "delete"
  /\ LET call == delCalls["hotel"]
         references == LinesOfHotel(call.id)
     IN /\ delCalls' = [delCalls EXCEPT
                          !["hotel"] =
                             DeleteReturned(call, references,
                                            SelectHotel(call.id) # {})]
        /\ hotels' = IF DeleteFkViolation(references) THEN hotels
                     ELSE hotels \ SelectHotel(call.id)
  /\ UNCHANGED <<customers, users, services, bookings, hotelBookingDetails,
                 serviceBookingDetails, seqs, clock, calls, budget, ledger,
                 response, dashCall, viewCall>>

DeleteServiceSelectBookings(id) ==
  /\ delCalls["service"].pc \in {"idle", "done"}
  /\ delCalls' = [delCalls EXCEPT
                    !["service"] = DeleteSelected(id, LinesOfService(id))]
  /\ UNCHANGED <<tables, clock, calls, budget, ledger, response, dashCall,
                 viewCall>>

DeleteServiceDelete ==
  /\ delCalls["service"].pc = "delete"
  /\ LET call == delCalls["service"]
         references == LinesOfService(call.id)
     IN /\ delCalls' = [delCalls EXCEPT
                          !["service"] =
                             DeleteReturned(call, references,
                                            SelectService(call.id) # {})]
        /\ services' = IF DeleteFkViolation(references) THEN services
                       ELSE services \ SelectService(call.id)
  /\ UNCHANGED <<customers, users, hotels, bookings, hotelBookingDetails,
                 serviceBookingDetails, seqs, clock, calls, budget, ledger,
                 response, dashCall, viewCall>>

\* Before any of these calls.
InitAdmin ==
  /\ response = NoResponse
  /\ delCalls = [k \in DeleteKinds |-> IdleDelCall]
  /\ dashCall = IdleDashCall
  /\ viewCall = IdleViewCall

\* ---------------------------------------------------------- specifications
\* The store as the handler's tests seed it: one customer, one user, one
\* hotel, one service, no booking.
Init ==
  /\ customers = {1}
  /\ users = {1}
  /\ hotels = { [id |-> 1, name |-> "Test Hotel", location |-> "Test Location",
                 cost_price |-> SeedHotelCost,
                 selling_price_percentage |-> SeedHotelPct] }
  /\ services = { [id |-> 1, cost_price |-> SeedServiceCost,
                   selling_price_percentage |-> SeedServicePct] }
  /\ bookings = {}
  /\ hotelBookingDetails = {}
  /\ serviceBookingDetails = {}
  /\ seqs = [booking |-> 0, hotelDetail |-> 0, serviceDetail |-> 0,
             payment |-> 0, rate |-> 0, expense |-> 0]
  /\ clock = 0
  /\ calls = [c \in CallIds |-> IdleCall]
  /\ budget = [updates |-> MaxUpdates, ledgerOps |-> MaxLedgerOps]
  /\ payments = {}
  /\ rates = {}
  /\ expenses = {}
  /\ payCalls = [c \in CallIds |-> IdlePayCall]
  /\ rateCalls = [c \in CallIds |-> IdleRateCall]
  /\ invoices = <<>>
  /\ InitAdmin

\* One createBooking call, its steps interleaved with status updates and
\* with updates and deletes of the master data.
Next ==
  \/ \E req \in Requests : StartCreateBooking(1, req)
  \/ SelectCustomer(1)
  \/ SelectUser(1)
  \/ SelectFirstHotel(1)
  \/ SelectFirstService(1)
  \/ CalcHotel(1)
  \/ CalcService(1)
  \/ InsertBooking(1)
  \/ SelectHotelDetail(1)
  \/ InsertHotelDetail(1)
  \/ SelectServiceDetail(1)
  \/ InsertServiceDetail(1)
  \/ \E id \in {b.id : b \in bookings} \cup {MissingId},
        status \in BookingStatuses : UpdateBookingStatus(id, status)
  \/ \E cost \in UpdateCosts, pct \in UpdatePcts : UpdateHotel(1, cost, pct)
  \/ \E cost \in UpdateCosts, pct \in UpdatePcts : UpdateService(1, cost, pct)
  \/ DeleteHotel(1)
  \/ DeleteService(1)

Spec == Init /\ [][Next]_vars

\* Two concurrent createBooking calls, each sending the test cart.
NextRace ==
  \/ \E c \in CallIds, req \in RaceRequests : StartCreateBooking(c, req)
  \/ \E c \in CallIds : SelectCustomer(c)
  \/ \E c \in CallIds : SelectUser(c)
  \/ \E c \in CallIds : SelectFirstHotel(c)
  \/ \E c \in CallIds : SelectFirstService(c)
  \/ \E c \in CallIds : CalcHotel(c)
  \/ \E c \in CallIds : CalcService(c)
  \/ \E c \in CallIds : InsertBooking(c)
  \/ \E c \in CallIds : SelectHotelDetail(c)
  \/ \E c \in CallIds : InsertHotelDetail(c)
  \/ \E c \in CallIds : SelectServiceDetail(c)
  \/ \E c \in CallIds : InsertServiceDetail(c)

SpecRace == Init /\ [][NextRace]_vars

\* The store as the tests of the payment handlers seed it: one customer, one
\* user, one booking of cost 1000.00 and selling price 1200.00 with the
\* column defaults (draft, pending), and the rate USD to SAR at 3.75.  (A
\* seeded booking number such as 'B001' is no clock reading: it is negative.)
InitLedger ==
  /\ customers = {1}
  /\ users = {1}
  /\ hotels = {}
  /\ services = {}
  /\ bookings = { [id |-> 1, customer_id |-> 1, booking_number |-> -1,
                   total_cost_price |-> 100000, total_selling_price |-> 120000,
                   status |-> "draft", payment_status |-> "pending",
                   created_by |-> 1, created_at |-> 0] }
  /\ hotelBookingDetails = {}
  /\ serviceBookingDetails = {}
  /\ seqs = [booking |-> 1, hotelDetail |-> 0, serviceDetail |-> 0,
             payment |-> 0, rate |-> 1, expense |-> 0]
  /\ clock = 0
  /\ calls = [c \in CallIds |-> IdleCall]
  /\ budget = [updates |-> MaxUpdates, ledgerOps |-> MaxLedgerOps]
  /\ payments = {}
  /\ rates = { [id |-> 1, from_currency |-> "USD", to_currency |-> "SAR",
                rate |-> 37500] }
  /\ expenses = {}
  /\ payCalls = [c \in CallIds |-> IdlePayCall]
  /\ rateCalls = [c \in CallIds |-> IdleRateCall]
  /\ invoices = <<>>
  /\ InitAdmin

\* The payment ledger: createPayment calls on the seeded booking, with the
\* exchange rates created, updated and deleted beside them.
NextLedger ==
  \/ \E req \in PaymentRequests : CreatePaymentSelectBooking(1, req)
  \/ CreatePaymentSelectRate(1)
  \/ CreatePaymentInsert(1)
  \/ \E req \in RateRequests : CreateRateSelectExisting(1, req)
  \/ CreateRateInsert(1)
  \/ \E id \in {r.id : r \in rates} \cup {MissingId}, rate \in UpdateRates :
        UpdateCurrencyExchangeRate(id, rate)
  \/ \E id \in {r.id : r \in rates} \cup {MissingId} :
        DeleteCurrencyExchangeRate(id)

SpecLedger == InitLedger /\ [][NextLedger]_vars

\* Every exposed operation beside one createBooking call with the test
\* cart: a payment, an expense, status updates, updates of the master data,
\* exchange-rate changes and the outstanding-invoices report.
FramePaymentRequests == { PaymentInput(1, 30000, "SAR") }
FrameRateRequests == { RateInput("USD", "SAR", 37500) }

NextFrame ==
  \/ \E req \in RaceRequests : StartCreateBooking(1, req)
  \/ SelectCustomer(1)
  \/ SelectUser(1)
  \/ SelectFirstHotel(1)
  \/ SelectFirstService(1)
  \/ CalcHotel(1)
  \/ CalcService(1)
  \/ InsertBooking(1)
  \/ SelectHotelDetail(1)
  \/ InsertHotelDetail(1)
  \/ SelectServiceDetail(1)
  \/ InsertServiceDetail(1)
  \/ \E req \in FramePaymentRequests : CreatePaymentSelectBooking(1, req)
  \/ CreatePaymentInsert(1)
  \/ \E req \in FrameRateRequests : CreateRateSelectExisting(1, req)
  \/ CreateRateInsert(1)
  \/ \E id \in {r.id : r \in rates}, rate \in UpdateRates :
        UpdateCurrencyExchangeRate(id, rate)
  \/ \E id \in {r.id : r \in rates} : DeleteCurrencyExchangeRate(id)
  \/ \E req \in ExpenseRequests : CreateExpense(req)
  \/ \E id \in {b.id : b \in bookings} : UpdateBookingStatus(id, "confirmed")
  \/ \E cost \in UpdateCosts : UpdateHotel(1, cost, Undefined)
  \/ \E pct \in UpdatePcts : UpdateService(1, Undefined, pct)
  \/ GetOutstandingInvoices

SpecFrame == Init /\ [][NextFrame]_vars

\* The store as the tests of the reports seed it, here with two bookings of
\* cost 500.00 and selling price 800.00 that are not pending: one partial,
\* one paid ('should not return fully paid bookings').
InitReports ==
  /\ customers = {1}
  /\ users = {1}
  /\ hotels = { [id |-> 1, name |-> "Test Hotel", location |-> "Test Location",
                 cost_price |-> SeedHotelCost,
                 selling_price_percentage |-> SeedHotelPct] }
  /\ services = { [id |-> 1, cost_price |-> SeedServiceCost,
                   selling_price_percentage |-> SeedServicePct] }
  /\ bookings =
       { [id |-> 1, customer_id |-> 1, booking_number |-> -1,
          total_cost_price |-> 50000, total_selling_price |-> 80000,
          status |-> "confirmed", payment_status |-> "partial",
          created_by |-> 1, created_at |-> 0],
         [id |-> 2, customer_id |-> 1, booking_number |-> -2,
          total_cost_price |-> 50000, total_selling_price |-> 80000,
          status |-> "confirmed", payment_status |-> "paid",
          created_by |-> 1, created_at |-> 0] }
  /\ hotelBookingDetails = {}
  /\ serviceBookingDetails = {}
  /\ seqs = [booking |-> 2, hotelDetail |-> 0, serviceDetail |-> 0,
             payment |-> 0, rate |-> 0, expense |-> 0]
  /\ clock = 0
  /\ calls = [c \in CallIds |-> IdleCall]
  /\ budget = [updates |-> MaxUpdates, ledgerOps |-> MaxLedgerOps]
  /\ payments = {}
  /\ rates = {}
  /\ expenses = {}
  /\ payCalls = [c \in CallIds |-> IdlePayCall]
  /\ rateCalls = [c \in CallIds |-> IdleRateCall]
  /\ invoices = <<>>
  /\ InitAdmin

\* The report: two concurrent createBooking calls with the test cart,
\* payments in SAR on their bookings, and the outstanding-invoices report.
NextReports ==
  \/ \E c \in CallIds, req \in RaceRequests : StartCreateBooking(c, req)
  \/ \E c \in CallIds : SelectCustomer(c)
  \/ \E c \in CallIds : SelectUser(c)
  \/ \E c \in CallIds : SelectFirstHotel(c)
  \/ \E c \in CallIds : SelectFirstService(c)
  \/ \E c \in CallIds : CalcHotel(c)
  \/ \E c \in CallIds : CalcService(c)
  \/ \E c \in CallIds : InsertBooking(c)
  \/ \E c \in CallIds : SelectHotelDetail(c)
  \/ \E c \in CallIds : InsertHotelDetail(c)
  \/ \E c \in CallIds : SelectServiceDetail(c)
  \/ \E c \in CallIds : InsertServiceDetail(c)
  \/ \E req \in ReportPaymentRequests : CreatePaymentSelectBooking(1, req)
  \/ CreatePaymentInsert(1)
  \/ GetOutstandingInvoices

SpecReports == InitReports /\ [][NextReports]_vars

\* The store as the tests of the profit/loss report seed it: three bookings
\* (500.00 / 750.00, 300.00 / 450.00, 400.00 / 600.00), the second created
\* a day before the other two.
InitProfit ==
  /\ customers = {1}
  /\ users = {1}
  /\ hotels = {}
  /\ services = {}
  /\ bookings =
       { [id |-> 1, customer_id |-> 1, booking_number |-> -1,
          total_cost_price |-> 50000, total_selling_price |-> 75000,
          status |-> "confirmed", payment_status |-> "pending",
          created_by |-> 1, created_at |-> 1],
         [id |-> 2, customer_id |-> 1, booking_number |-> -2,
          total_cost_price |-> 30000, total_selling_price |-> 45000,
          status |-> "confirmed", payment_status |-> "pending",
          created_by |-> 1, created_at |-> 0],
         [id |-> 3, customer_id |-> 1, booking_number |-> -3,
          total_cost_price |-> 40000, total_selling_price |-> 60000,
          status |-> "confirmed", payment_status |-> "pending",
          created_by |-> 1, created_at |-> 1] }
  /\ hotelBookingDetails = {}
  /\ serviceBookingDetails = {}
  /\ seqs = [booking |-> 3, hotelDetail |-> 0, serviceDetail |-> 0,
             payment |-> 0, rate |-> 0, expense |-> 0]
  /\ clock = 1
  /\ calls = [c \in CallIds |-> IdleCall]
  /\ budget = [updates |-> MaxUpdates, ledgerOps |-> MaxLedgerOps]
  /\ payments = {}
  /\ rates = {}
  /\ expenses = {}
  /\ payCalls = [c \in CallIds |-> IdlePayCall]
  /\ rateCalls = [c \in CallIds |-> IdleRateCall]
  /\ invoices = <<>>
  /\ InitAdmin

\* Expenses of 50.00 and 25.00 on the first booking, 25.00 on the second,
\* and 25.00 on a booking that does not exist.
ProfitExpenseRequests ==
  { [booking_id |-> 1, amount |-> 5000],
    [booking_id |-> 1, amount |-> 2500],
    [booking_id |-> 2, amount |-> 2500],
    [booking_id |-> MissingId, amount |-> 2500] }

\* Expenses and the profit/loss report over every window.
NextProfit ==
  \/ \E req \in ProfitExpenseRequests : CreateExpenseReturning(req)
  \/ \E startDate \in ReportDates, endDate \in ReportDates :
        GetProfitLossReport(startDate, endDate)

SpecProfit == InitProfit /\ [][NextProfit]_vars

\* The store as the dashboard test 'should ensure outstanding payments is
\* never negative' seeds it (a booking of cost 1000.00 sold at 500.00), with
\* a second booking (200.00 / 250.00).
InitDashboard ==
  /\ customers = {1}
  /\ users = {1}
  /\ hotels = {}
  /\ services = {}
  /\ bookings =
       { [id |-> 1, customer_id |-> 1, booking_number |-> -1,
          total_cost_price |-> 100000, total_selling_price |-> 50000,
          status |-> "confirmed", payment_status |-> "paid",
          created_by |-> 1, created_at |-> 0],
         [id |-> 2, customer_id |-> 1, booking_number |-> -2,
          total_cost_price |-> 20000, total_selling_price |-> 25000,
          status |-> "confirmed", payment_status |-> "pending",
          created_by |-> 1, created_at |-> 0] }
  /\ hotelBookingDetails = {}
  /\ serviceBookingDetails = {}
  /\ seqs = [booking |-> 2, hotelDetail |-> 0, serviceDetail |-> 0,
             payment |-> 0, rate |-> 0, expense |-> 0]
  /\ clock = 0
  /\ calls = [c \in CallIds |-> IdleCall]
  /\ budget = [updates |-> MaxUpdates, ledgerOps |-> MaxLedgerOps]
  /\ payments = {}
  /\ rates = {}
  /\ expenses = {}
  /\ payCalls = [c \in CallIds |-> IdlePayCall]
  /\ rateCalls = [c \in CallIds |-> IdleRateCall]
  /\ invoices = <<>>
  /\ InitAdmin

\* The test's payment of 800.00 SAR on the first booking, and expenses of
\* 100.00 and 150.00.
DashboardPaymentRequests == { PaymentInput(1, 80000, "SAR") }
DashboardExpenseRequests ==
  { [booking_id |-> 1, amount |-> 10000],
    [booking_id |-> 2, amount |-> 15000] }

\* The dashboard, statement by statement, beside payments and expenses,
\* and the profit/loss report with no window.
NextDashboard ==
  \/ \E req \in DashboardPaymentRequests : CreatePaymentSelectBooking(1, req)
  \/ CreatePaymentInsert(1)
  \/ \E req \in DashboardExpenseRequests : CreateExpense(req)
  \/ DashboardCountCustomers
  \/ DashboardCountBookings
  \/ DashboardSumBookings
  \/ DashboardSumExpenses
  \/ DashboardSumPayments
  \/ GetProfitLossReport(Undefined, Undefined)

SpecDashboard == InitDashboard /\ [][NextDashboard]_vars

\* Hotel lines on the first hotel and on a second one.
RecapRequests ==
  { [input |-> [customer_id |-> 1,
                hotel_bookings |-> << HotelLine(1, 2, 1, 3), HotelLine(2, 1, 1, 3) >>,
                services |-> <<>>],
     userId |-> 1],
    [input |-> [customer_id |-> 1,
                hotel_bookings |-> << HotelLine(1, 1, 1, 3), HotelLine(1, 2, 1, 3) >>,
                services |-> <<>>],
     userId |-> 1] }

\* The windows the recapitulation is asked for.
RecapDates == {0, 1}

\* The recapitulation beside createHotel and one createBooking call.
NextRecap ==
  \/ \E input \in HotelInputs : CreateHotel(input)
  \/ \E req \in RecapRequests : StartCreateBooking(1, req)
  \/ SelectCustomer(1)
  \/ SelectUser(1)
  \/ SelectFirstHotel(1)
  \/ CalcHotel(1)
  \/ InsertBooking(1)
  \/ SelectHotelDetail(1)
  \/ InsertHotelDetail(1)
  \/ \E startDate \in RecapDates, endDate \in RecapDates :
        GetHotelBookingRecapitulation(startDate, endDate)

SpecRecap == Init /\ [][NextRecap]_vars

\* updateBookingStatus with what it returns, on a seeded booking, on the
\* booking of one createBooking call and on a booking that does not exist,
\* beside a payment on the seeded booking.
StatusPaymentRequests == { PaymentInput(1, 10000, "SAR") }

NextStatus ==
  \/ \E req \in RaceRequests : StartCreateBooking(1, req)
  \/ SelectCustomer(1)
  \/ SelectUser(1)
  \/ SelectFirstHotel(1)
  \/ SelectFirstService(1)
  \/ CalcHotel(1)
  \/ CalcService(1)
  \/ InsertBooking(1)
  \/ SelectHotelDetail(1)
  \/ InsertHotelDetail(1)
  \/ SelectServiceDetail(1)
  \/ InsertServiceDetail(1)
  \/ \E req \in StatusPaymentRequests : CreatePaymentSelectBooking(1, req)
  \/ CreatePaymentInsert(1)
  \/ \E id \in {1, 3, MissingId}, status \in BookingStatuses :
        UpdateBookingStatusReturning(id, status)

SpecStatus == InitReports /\ [][NextStatus]_vars

\* Two concurrent createCurrencyExchangeRate calls, beside updates and
\* deletes of the rates.
NextRates ==
  \/ \E c \in CallIds, req \in RateRequests : CreateRateSelectExisting(c, req)
  \/ \E c \in CallIds : CreateRateInsert(c)
  \/ \E id \in {r.id : r \in rates}, rate \in UpdateRates :
        UpdateCurrencyExchangeRate(id, rate)
  \/ \E id \in {r.id : r \in rates} : DeleteCurrencyExchangeRate(id)

SpecRates == Init /\ [][NextRates]_vars

\* The deletes of the customer, the hotel and the service, statement by
\* statement, beside one createBooking call with the test cart.
DeleteIds == {1, MissingId}

NextDelete ==
  \/ \E req \in RaceRequests : StartCreateBooking(1, req)
  \/ SelectCustomer(1)
  \/ SelectUser(1)
  \/ SelectFirstHotel(1)
  \/ SelectFirstService(1)
  \/ CalcHotel(1)
  \/ CalcService(1)
  \/ InsertBooking(1)
  \/ SelectHotelDetail(1)
  \/ InsertHotelDetail(1)
  \/ SelectServiceDetail(1)
  \/ InsertServiceDetail(1)
  \/ \E id \in DeleteIds : DeleteCustomerCountBookings(id)
  \/ DeleteCustomerDelete
  \/ \E id \in DeleteIds : DeleteHotelSelectBookings(id)
  \/ DeleteHotelDelete
  \/ \E id \in DeleteIds : DeleteServiceSelectBookings(id)
  \/ DeleteServiceDelete

SpecDelete == Init /\ [][NextDelete]_vars

\* getBookingById beside one createBooking call: the test cart, a cart
\* whose second hotel line is on a hotel that does not exist, and a cart
\* with two lines on the hotel.
ViewRequests ==
  { [input |-> TestInput(1), userId |-> 1],
    [input |-> [customer_id |-> 1,
                hotel_bookings |-> << HotelLine(1, 1, 1, 3),
                                      HotelLine(MissingId, 1, 1, 3) >>,
                services |-> << ServiceLine(1, 3) >>],
     userId |-> 1],
    [input |-> [customer_id |-> 1,
                hotel_bookings |-> << HotelLine(1, 1, 1, 3), HotelLine(1, 1, 1, 3) >>,
                services |-> <<>>],
     userId |-> 1] }

NextView ==
  \/ \E req \in ViewRequests : StartCreateBooking(1, req)
  \/ SelectCustomer(1)
  \/ SelectUser(1)
  \/ SelectFirstHotel(1)
  \/ SelectFirstService(1)
  \/ CalcHotel(1)
  \/ CalcService(1)
  \/ InsertBooking(1)
  \/ SelectHotelDetail(1)
  \/ InsertHotelDetail(1)
  \/ SelectServiceDetail(1)
  \/ InsertServiceDetail(1)
  \/ \E id \in {1, MissingId} : GetBookingByIdSelectBooking(id)
  \/ GetBookingByIdSelectHotels
  \/ GetBookingByIdSelectServices

SpecView == Init /\ [][NextView]_vars

\* ------------------------------------------------------------------ claims
\* What a call has persisted and what its request asked for.
HotelDetailsOf(call) ==
  IF call.booking = <<>> THEN {}
  ELSE { d \in hotelBookingDetails : d.booking_id = call.booking[1].id }

ServiceDetailsOf(call) ==
  IF call.booking = <<>> THEN {}
  ELSE { d \in serviceBookingDetails : d.booking_id = call.booking[1].id }

BookingRowsOf(call) ==
  IF call.booking = <<>> THEN {}
  ELSE { b \in bookings : b.id = call.booking[1].id }

Range(seq) == { seq[k] : k \in 1..Len(seq) }

RECURSIVE SumCostPrice(_)
SumCostPrice(rows) ==
  IF rows = {} THEN 0
  ELSE LET r == CHOOSE x \in rows : TRUE
       IN r.cost_price + SumCostPrice(rows \ {r})

RECURSIVE SumSellingPrice(_)
SumSellingPrice(rows) ==
  IF rows = {} THEN 0
  ELSE LET r == CHOOSE x \in rows : TRUE
       IN r.selling_price + SumSellingPrice(rows \ {r})

Returned(call) == call.pc = "done" /\ call.error = ""
Failed(call) == call.pc = "done" /\ call.error # ""

NotFoundErrors ==
  {"Customer not found", "User not found", "Hotel not found", "Service not found"}

\* C1: createBooking is atomic.  In every state a booking row of a call is
\* there only together with one line item per hotel line and per service
\* line of its request, and a call that has failed has left no booking row
\* and no line item.
C1_CreateBookingAtomic ==
  \A c \in CallIds :
    LET call == calls[c]
    IN /\ BookingRowsOf(call) # {} =>
            /\ Cardinality(HotelDetailsOf(call)) = Len(call.input.hotel_bookings)
            /\ Cardinality(ServiceDetailsOf(call)) = Len(call.input.services)
       /\ Failed(call) =>
            /\ BookingRowsOf(call) = {}
            /\ HotelDetailsOf(call) = {}
            /\ ServiceDetailsOf(call) = {}

\* C2: no two persisted bookings have the same booking_number, whatever the
\* interleaving of concurrent createBooking calls and the clock they read.
C2_BookingNumbersUnique ==
  \A b1 \in bookings : \A b2 \in bookings :
    b1.booking_number = b2.booking_number => b1.id = b2.id

\* Two calls generated the same number; one holds its booking row, the other
\* has had its insert rejected.
C2_Witness ==
  \E c1 \in CallIds : \E c2 \in CallIds :
    /\ c1 # c2
    /\ calls[c1].bookingNumber = calls[c2].bookingNumber
    /\ BookingRowsOf(calls[c1]) # {}
    /\ calls[c2].pc = "done"
    /\ calls[c2].error = "Conflict"

\* Every reference of a request is to a row of the store.
ValidInput(call) ==
  /\ call.input.customer_id \in customers
  /\ call.userId \in users
  /\ \A hb \in Range(call.input.hotel_bookings) : SelectHotel(hb.hotel_id) # {}
  /\ \A sb \in Range(call.input.services) : SelectService(sb.service_id) # {}

\* C3: a booking-number collision is retried with a fresh number, so every
\* finished createBooking call with valid input, also one that generated the
\* number of a concurrent call, has ended with its booking persisted.
C3_CollisionRetried ==
  \A c \in CallIds :
    (calls[c].pc = "done" /\ ValidInput(calls[c])) =>
      (calls[c].error = "" /\ BookingRowsOf(calls[c]) # {})

\* A request that names the missing id as customer, actor, or hotel or
\* service of any line.
NamesMissing(call) ==
  \/ call.input.customer_id = MissingId
  \/ call.userId = MissingId
  \/ \E hb \in Range(call.input.hotel_bookings) : hb.hotel_id = MissingId
  \/ \E sb \in Range(call.input.services) : sb.service_id = MissingId

\* C4: a createBooking call whose customer, actor, or hotel or service at
\* any position does not exist ends with a NotFound error and has persisted
\* no booking row and no line item.
C4_MissingReferenceRejected ==
  \A c \in CallIds :
    (calls[c].pc = "done" /\ NamesMissing(calls[c])) =>
      /\ calls[c].error \in NotFoundErrors
      /\ BookingRowsOf(calls[c]) = {}
      /\ HotelDetailsOf(calls[c]) = {}
      /\ ServiceDetailsOf(calls[c]) = {}

\* C5: every persisted hotel line item has its check-out date strictly after
\* its check-in date.
C5_CheckOutAfterCheckIn ==
  \A d \in hotelBookingDetails : d.check_out_date > d.check_in_date

\* C6: the booking a createBooking call returned has total_cost_price equal
\* to the sum of cost_price over its persisted line items, and
\* total_selling_price equal to the sum of their selling_price.  (Stated for
\* the calls that persisted a line item for every line of their request: a
\* skipped line is the matter of C1 and C4.)
C6_TotalsEqualLineSums ==
  \A c \in CallIds :
    (/\ Returned(calls[c])
     /\ Cardinality(HotelDetailsOf(calls[c])) = Len(calls[c].input.hotel_bookings)
     /\ Cardinality(ServiceDetailsOf(calls[c])) = Len(calls[c].input.services)) =>
      \A b \in BookingRowsOf(calls[c]) :
        LET lines == HotelDetailsOf(calls[c]) \cup ServiceDetailsOf(calls[c])
        IN /\ b.total_cost_price = SumCostPrice(lines)
           /\ b.total_selling_price = SumSellingPrice(lines)

\* C7: every line item a createBooking call inserts is priced from the master
\* row the call read for it: cost_price = master cost * number_of_rooms (hotel
\* line, whatever its dates) or * quantity (service line), and selling_price =
\* cost_price * (1 + percentage / 100), stored at two decimals.
C7_LinePricing ==
  [][ /\ \A d \in hotelBookingDetails' \ hotelBookingDetails :
           \E c \in CallIds :
             /\ calls[c].pc = "insHotelDetail"
             /\ d.booking_id = calls[c].booking[1].id
             /\ d.number_of_rooms =
                  calls[c].input.hotel_bookings[calls[c].i].number_of_rooms
             /\ d.cost_price = calls[c].master[1].cost_price * d.number_of_rooms
             /\ d.selling_price =
                  (d.cost_price * (10000 + calls[c].master[1].selling_price_percentage)
                     + 5000) \div 10000
      /\ \A d \in serviceBookingDetails' \ serviceBookingDetails :
           \E c \in CallIds :
             /\ calls[c].pc = "insServiceDetail"
             /\ d.booking_id = calls[c].booking[1].id
             /\ d.quantity = calls[c].input.services[calls[c].i].quantity
             /\ d.cost_price = calls[c].master[1].cost_price * d.quantity
             /\ d.selling_price =
                  (d.cost_price * (10000 + calls[c].master[1].selling_price_percentage)
                     + 5000) \div 10000 ]_vars

\* The scenario of the specification: one room for two nights in a hotel at
\* 100.00 and 20 % is a line of cost 100.00 and selling price 120.00.
C7_Witness ==
  \E d \in hotelBookingDetails :
    /\ d.number_of_rooms = 1
    /\ d.check_out_date - d.check_in_date = 2
    /\ d.cost_price = 10000
    /\ d.selling_price = 12000

\* C8: every booking has total_selling_price >= total_cost_price >= 0 (the
\* percentage of every hotel and service is positive, as the input schemas
\* of their handlers require).
C8_SellingCoversCost ==
  /\ \A m \in hotels \cup services : m.selling_price_percentage >= 0
  /\ \A b \in bookings :
       /\ b.total_cost_price >= 0
       /\ b.total_selling_price >= b.total_cost_price

\* The test cart: two rooms at 100.00 and three services at 50.00 cost 350.00
\* and sell for 240.00 + 195.00.
C8_Witness ==
  \E b \in bookings :
    b.total_cost_price = 35000 /\ b.total_selling_price = 43500

\* C9: a createBooking call for an existing customer and actor with no hotel
\* line, and with service lines (if any) on existing services only, returns a
\* booking whose totals are the sums over its service lines (0 with none).
C9_NoHotelLineAllowed ==
  \A c \in CallIds :
    (/\ calls[c].pc = "done"
     /\ ValidInput(calls[c])
     /\ calls[c].input.hotel_bookings = <<>>) =>
      /\ calls[c].error = ""
      /\ \E b \in BookingRowsOf(calls[c]) :
           /\ b.total_cost_price = SumCostPrice(ServiceDetailsOf(calls[c]))
           /\ b.total_selling_price = SumSellingPrice(ServiceDetailsOf(calls[c]))

\* C10: the booking row a createBooking call got back from its insert, which
\* is the booking it returns, has status draft, payment_status pending, and
\* the customer and actor of the request; the persisted row keeps that
\* customer, actor and payment_status (its status is updateBookingStatus's
\* to change from then on).
C10_CreatedAsDraftPending ==
  \A c \in CallIds :
    calls[c].booking # <<>> =>
      LET r == calls[c].booking[1]
      IN /\ r.status = "draft"
         /\ r.payment_status = "pending"
         /\ r.customer_id = calls[c].input.customer_id
         /\ r.created_by = calls[c].userId
         /\ \E b \in bookings :
              /\ b.id = r.id
              /\ b.customer_id = calls[c].input.customer_id
              /\ b.created_by = calls[c].userId
              /\ b.payment_status = "pending"

\* A call has returned its booking.
C10_Witness ==
  \E c \in CallIds : Returned(calls[c]) /\ BookingRowsOf(calls[c]) # {}

\* C11: no step changes the total_cost_price or total_selling_price of a
\* booking that exists, nor removes or changes a line item that exists:
\* whatever updateBookingStatus, createPayment, createExpense, updateHotel,
\* updateService, the exchange-rate operations and the report do, a booking
\* and its line items keep the prices they were inserted with.
C11_TotalsImmutable ==
  [][ /\ \A b \in bookings :
           \E b2 \in bookings' :
             /\ b2.id = b.id
             /\ b2.total_cost_price = b.total_cost_price
             /\ b2.total_selling_price = b.total_selling_price
      /\ \A d \in hotelBookingDetails :
           \E d2 \in hotelBookingDetails' :
             /\ d2.id = d.id
             /\ d2.cost_price = d.cost_price
             /\ d2.selling_price = d.selling_price
      /\ \A d \in serviceBookingDetails :
           \E d2 \in serviceBookingDetails' :
             /\ d2.id = d.id
             /\ d2.cost_price = d.cost_price
             /\ d2.selling_price = d.selling_price ]_vars

\* The booking of the test cart, confirmed and with a payment and an expense
\* on it, still has its totals of 350.00 and 435.00 and its hotel line of
\* 200.00 after the hotel's cost was updated to 0.05.
C11_Witness ==
  \E b \in bookings :
    /\ b.status = "confirmed"
    /\ b.total_cost_price = 35000
    /\ b.total_selling_price = 43500
    /\ \E p \in payments : p.booking_id = b.id
    /\ \E e \in expenses : e.booking_id = b.id
    /\ \E d \in hotelBookingDetails : d.booking_id = b.id /\ d.cost_price = 20000
    /\ \E h \in hotels : h.cost_price = 5

\* The paid total of a booking and the payment status derived from it.
PaidTotal(b) == SumAmountInSar(PaymentsOfBooking(b.id))

DerivedPaymentStatus(b) ==
  IF PaidTotal(b) = 0 THEN "pending"
  ELSE IF PaidTotal(b) < b.total_selling_price THEN "partial"
  ELSE "paid"

\* C12: once a createPayment call has returned its payment, the stored
\* payment_status of the booking it paid is the one derived from the ledger:
\* pending for a paid total of 0, partial below the total selling price,
\* paid from the total selling price on.
C12_PaymentStatusDerived ==
  \A c \in CallIds :
    Returned(payCalls[c]) =>
      \A b \in bookings :
        b.id = payCalls[c].input.booking_id =>
          b.payment_status = DerivedPaymentStatus(b)

\* The payment rows a step adds, and the call that inserted them.
NewPayments == payments' \ payments

\* C13: every payment a createPayment call inserts has amount_in_sar =
\* amount when its currency is SAR, and the call has then made no rate lookup
\* (it is never waiting for a rate and never fails for a missing one, also
\* with an empty rate table); otherwise amount_in_sar = amount * rate, at two
\* decimals, for the rate of a record of the pair (currency, SAR) that the
\* call read.
C13_AmountInSar ==
  [][ /\ \A p \in NewPayments :
           \E c \in CallIds :
             /\ payCalls[c].pc = "insPayment"
             /\ payCalls'[c].payment = <<p>>
             /\ p.amount = payCalls[c].input.amount
             /\ p.currency = payCalls[c].input.currency
             /\ IF p.currency = "SAR"
                THEN /\ p.amount_in_sar = p.amount
                     /\ payCalls[c].exchangeRate = <<>>
                ELSE /\ payCalls[c].exchangeRate # <<>>
                     /\ payCalls[c].exchangeRate[1].from_currency = p.currency
                     /\ payCalls[c].exchangeRate[1].to_currency = "SAR"
                     /\ p.amount_in_sar =
                          (p.amount * payCalls[c].exchangeRate[1].rate + 5000)
                            \div 10000
      /\ \A c \in CallIds :
           payCalls'[c].input.currency = "SAR" =>
             /\ payCalls'[c].pc # "selRate"
             /\ payCalls'[c].error \notin
                  {"Exchange rate not found for USD to SAR",
                   "Exchange rate not found for IDR to SAR"} ]_vars

\* The scenario of the specification: 100 USD at 3.75 is stored as 375.00.
C13_Witness ==
  \E p \in payments :
    p.currency = "USD" /\ p.amount = 10000 /\ p.amount_in_sar = 37500

\* C14: a createPayment call in a currency other than SAR that finds no rate
\* record for the ordered pair (currency, SAR) fails with the error that
\* names both currencies and inserts nothing, whether or not a record of the
\* inverse pair exists; a call that goes on to its insert holds a record of
\* exactly that pair.
C14_RateNotFound ==
  [][ \A c \in CallIds :
        /\ (/\ payCalls[c].pc = "selRate"
            /\ payCalls'[c] # payCalls[c]
            /\ ~ \E r \in rates : /\ r.from_currency = payCalls[c].input.currency
                                  /\ r.to_currency = "SAR") =>
             /\ payCalls'[c].pc = "done"
             /\ payCalls'[c].error =
                  (IF payCalls[c].input.currency = "USD"
                   THEN "Exchange rate not found for USD to SAR"
                   ELSE "Exchange rate not found for IDR to SAR")
             /\ payCalls'[c].payment = <<>>
             /\ payments' = payments
        /\ (payCalls'[c].pc = "insPayment" /\ payCalls'[c].input.currency # "SAR") =>
             /\ payCalls'[c].exchangeRate # <<>>
             /\ payCalls'[c].exchangeRate[1].from_currency =
                  payCalls'[c].input.currency
             /\ payCalls'[c].exchangeRate[1].to_currency = "SAR" ]_vars

\* A payment in IDR has failed for its missing rate while the rate of the
\* inverse pair, SAR to IDR, is there; nothing was inserted.
C14_Witness ==
  /\ \E r \in rates : r.from_currency = "SAR" /\ r.to_currency = "IDR"
  /\ ~ \E r \in rates : r.from_currency = "IDR" /\ r.to_currency = "SAR"
  /\ \E c \in CallIds :
       /\ payCalls[c].pc = "done"
       /\ payCalls[c].input.currency = "IDR"
       /\ payCalls[c].error = "Exchange rate not found for IDR to SAR"
  /\ payments = {}

\* C15: the payment ledger is append-only.  No step removes a payment or
\* changes its booking_id, amount, currency or amount_in_sar, whatever
\* happens afterwards to the rate it was converted with; so the paid total of
\* a booking never decreases.
C15_LedgerAppendOnly ==
  [][ /\ \A p \in payments :
           \E q \in payments' :
             /\ q.id = p.id
             /\ q.booking_id = p.booking_id
             /\ q.amount = p.amount
             /\ q.currency = p.currency
             /\ q.amount_in_sar = p.amount_in_sar
      /\ \A b \in bookings :
           SumAmountInSar({ q \in payments' : q.booking_id = b.id })
             >= SumAmountInSar({ p \in payments : p.booking_id = b.id }) ]_vars

\* A payment of 100 USD was recorded at 3.75 and is still 375.00 after a
\* later operation: its rate was updated to 4.00 or deleted, or a further
\* payment was recorded.
C15_Witness ==
  \E p \in payments :
    /\ p.currency = "USD"
    /\ p.amount_in_sar = 37500
    /\ \/ \E r \in rates : /\ r.from_currency = "USD"
                           /\ r.to_currency = "SAR"
                           /\ r.rate = 40000
       \/ ~ \E r \in rates : r.from_currency = "USD" /\ r.to_currency = "SAR"
       \/ \E q \in payments : q.id > p.id

\* C16: a createPayment call with a valid amount for a booking_id that no
\* booking has ends at once with 'Booking not found' and inserts nothing,
\* whatever its currency and the rates; and every payment of the ledger
\* references a booking that exists.
C16_BookingNotFound ==
  /\ \A c \in CallIds :
       (/\ payCalls[c].pc # "idle"
        /\ payCalls[c].input.amount > 0
        /\ ~ \E b \in bookings : b.id = payCalls[c].input.booking_id) =>
         /\ payCalls[c].pc = "done"
         /\ payCalls[c].error = "Booking not found"
         /\ payCalls[c].payment = <<>>
  /\ \A p \in payments : \E b \in bookings : b.id = p.booking_id

\* A payment in USD on a missing booking has failed while the rate USD to
\* SAR exists and the ledger already holds a payment of the seeded booking.
C16_Witness ==
  /\ \E c \in CallIds :
       /\ payCalls[c].pc = "done"
       /\ payCalls[c].input.booking_id = MissingId
       /\ payCalls[c].input.currency = "USD"
       /\ payCalls[c].error = "Booking not found"
  /\ \E r \in rates : r.from_currency = "USD" /\ r.to_currency = "SAR"
  /\ payments # {}

\* C17: a createPayment call with an amount that is not positive ends with
\* InvalidInput and inserts nothing, and every payment of the ledger has
\* amount > 0 and amount_in_sar > 0.
C17_PositiveAmounts ==
  /\ \A c \in CallIds :
       (payCalls[c].pc # "idle" /\ payCalls[c].input.amount <= 0) =>
         /\ payCalls[c].pc = "done"
         /\ payCalls[c].error = "InvalidInput"
         /\ payCalls[c].payment = <<>>
  /\ \A p \in payments : p.amount > 0 /\ p.amount_in_sar > 0

\* C18: every row getOutstandingInvoices has returned has
\* outstanding_amount >= 0, also for a booking that was paid more than its
\* total selling price.
C18_OutstandingNonNegative ==
  \A k \in 1..Len(invoices) : invoices[k].outstanding_amount >= 0

\* The bookings the query selects: those with payment_status pending.
PendingBookings == { b \in bookings : b.payment_status = "pending" }

\* C19: what getOutstandingInvoices returns has exactly one row for each
\* booking whose stored payment_status is pending and none for a booking
\* that is partial or paid; the row's paid_amount is the sum of
\* amount_in_sar over the payments of that booking alone (0 with none) and
\* its total_amount is the booking's total_selling_price.
C19_OutstandingInvoicesRows ==
  [][ invoices' # invoices =>
        /\ Len(invoices') = Cardinality(PendingBookings)
        /\ \A b \in PendingBookings :
             \E k \in 1..Len(invoices') :
               /\ invoices'[k].booking_id = b.id
               /\ invoices'[k].booking_number = b.booking_number
               /\ invoices'[k].total_amount = b.total_selling_price
               /\ invoices'[k].paid_amount =
                    SumAmountInSar({ p \in payments : p.booking_id = b.id })
        /\ \A k \in 1..Len(invoices') :
             \E b \in PendingBookings : invoices'[k].booking_id = b.id ]_vars

\* The report has returned the rows of the two created bookings, one paid
\* 500.00 and one paid 100.00, each with the payment of its own booking, and
\* no row for the seeded partial and paid bookings.
C19_Witness ==
  /\ Len(invoices) = 2
  /\ \E k \in 1..2 : invoices[k].booking_id = 3 /\ invoices[k].paid_amount = 50000
  /\ \E k \in 1..2 : invoices[k].booking_id = 4 /\ invoices[k].paid_amount = 10000
  /\ \E b \in bookings : b.payment_status = "partial"
  /\ \E b \in bookings : b.payment_status = "paid"

\* C20: getOutstandingInvoices called again with the store as it was returns
\* the same rows in the same order: a call made while the last result is
\* still a result of the present store, and that changes no table, returns
\* that last result.
C20_ReportRepeatable ==
  [][ (invoices \in OutstandingInvoiceOrders /\ UNCHANGED <<tables, payments>>)
        => invoices' = invoices ]_vars

\* ------------------------------------------------------------------ reports
\* The window a report was asked for, as the specification words it.
InWindow(b, input) ==
  /\ input.startDate # Undefined => input.startDate <= b.created_at
  /\ input.endDate # Undefined => b.created_at <= input.endDate

\* C21: getProfitLossReport returns exactly one row for each booking in the
\* window, also when the booking has several expenses; the row's
\* total_expenses is the sum of that booking's expense amounts (0 with
\* none), and its profit is total_selling_price - total_cost_price -
\* total_expenses.
C21_ProfitLossPerBooking ==
  [][ (response' # response /\ response'.op = "getProfitLossReport") =>
        LET rows == response'.rows
            window == { b \in bookings : InWindow(b, response'.input) }
        IN /\ \A b \in window :
                Cardinality({ k \in DOMAIN rows : rows[k].booking_id = b.id }) = 1
           /\ \A k \in DOMAIN rows :
                \E b \in window :
                  /\ rows[k].booking_id = b.id
                  /\ rows[k].total_selling_price = b.total_selling_price
                  /\ rows[k].total_cost_price = b.total_cost_price
                  /\ rows[k].total_expenses =
                       SumOver([e \in { x \in expenses : x.booking_id = b.id }
                                  |-> e.amount])
                  /\ rows[k].profit =
                       b.total_selling_price - b.total_cost_price
                         - rows[k].total_expenses ]_vars

\* The report has returned three rows while the first booking had two
\* expenses (50.00 and 25.00): its row carries 75.00, a row of a booking
\* with no expense carries 0.
C21_Witness ==
  /\ response.op = "getProfitLossReport"
  /\ Len(response.rows) = 3
  /\ Cardinality({ e \in expenses : e.booking_id = 1 }) = 2
  /\ \E k \in 1..3 : /\ response.rows[k].booking_id = 1
                     /\ response.rows[k].total_expenses = 7500
                     /\ response.rows[k].profit = 17500
  /\ \E k \in 1..3 : /\ response.rows[k].booking_id = 3
                     /\ response.rows[k].total_expenses = 0

\* C22: getProfitLossReport(start, end) holds exactly the bookings with
\* start <= created_at <= end, a bound counting only when it was supplied
\* (with none, every booking), and its rows come by created_at, the most
\* recent first.
C22_ProfitLossWindow ==
  [][ (response' # response /\ response'.op = "getProfitLossReport") =>
        LET rows == response'.rows
        IN /\ { rows[k].booking_id : k \in DOMAIN rows } =
                { b.id : b \in { x \in bookings : InWindow(x, response'.input) } }
           /\ \A k \in DOMAIN rows :
                \E b \in bookings : /\ b.id = rows[k].booking_id
                                    /\ b.created_at = rows[k].created_at
           /\ (response'.input.startDate = Undefined
                 /\ response'.input.endDate = Undefined)
                => Len(rows) = Cardinality(bookings)
           /\ \A i \in DOMAIN rows : \A j \in DOMAIN rows :
                i < j => rows[i].created_at >= rows[j].created_at ]_vars

\* The report for the window [0, 1] has returned the three bookings, the
\* two created at 1 (the end of the window) before the one created at 0
\* (its start).
C22_Witness ==
  /\ response.op = "getProfitLossReport"
  /\ response.input = [startDate |-> 0, endDate |-> 1]
  /\ Len(response.rows) = 3
  /\ response.rows[1].created_at = 1
  /\ response.rows[2].created_at = 1
  /\ response.rows[3].created_at = 0

\* The lines a recapitulation is about, and their groups by hotel, room
\* type and meal plan.
QualifyingLines(input) ==
  { d \in hotelBookingDetails :
      \E b \in bookings : /\ b.id = d.booking_id
                          /\ input.startDate <= b.created_at
                          /\ b.created_at <= input.endDate }

LinesOfGroup(input, hotel_id, room_type, meal_plan) ==
  { d \in QualifyingLines(input) : /\ d.hotel_id = hotel_id
                                   /\ d.room_type = room_type
                                   /\ d.meal_plan = meal_plan }

\* C23: getHotelBookingRecapitulation(start, end) returns one row for each
\* (hotel, room_type, meal_plan) that has a hotel line whose booking was
\* created within [start, end], two hotels never sharing a row, also when
\* they have the same name and location; the row's total_rooms is the sum
\* of number_of_rooms, total_nights the number of lines, total_cost and
\* total_revenue the sums of cost_price and selling_price, profit their
\* difference and booking_count the number of distinct bookings, all over
\* the lines of that group.
C23_RecapitulationGroups ==
  [][ (response' # response /\ response'.op = "getHotelBookingRecapitulation") =>
        LET rows == response'.rows
            input == response'.input
            groups == { <<d.hotel_id, d.room_type, d.meal_plan>> :
                          d \in QualifyingLines(input) }
        IN /\ Len(rows) = Cardinality(groups)
           /\ \A g \in groups :
                LET lines == LinesOfGroup(input, g[1], g[2], g[3])
                    hotel == CHOOSE h \in hotels : h.id = g[1]
                IN \E k \in DOMAIN rows :
                     /\ rows[k].hotel_name = hotel.name
                     /\ rows[k].hotel_location = hotel.location
                     /\ rows[k].room_type = g[2]
                     /\ rows[k].meal_plan = g[3]
                     /\ rows[k].total_rooms =
                          SumOver([d \in lines |-> d.number_of_rooms])
                     /\ rows[k].total_nights = Cardinality(lines)
                     /\ rows[k].total_cost = SumOver([d \in lines |-> d.cost_price])
                     /\ rows[k].total_revenue =
                          SumOver([d \in lines |-> d.selling_price])
                     /\ rows[k].profit =
                          rows[k].total_revenue - rows[k].total_cost
                     /\ rows[k].booking_count =
                          Cardinality({ d.booking_id : d \in lines }) ]_vars

\* ------------------------------------------------------------- the status
AllowedTransitions ==
  { <<"draft", "confirmed">>, <<"confirmed", "completed">>,
    <<"draft", "cancelled">>, <<"confirmed", "cancelled">> }

\* C24: a booking's status changes only along draft -> confirmed,
\* confirmed -> completed, draft -> cancelled and confirmed -> cancelled:
\* completed and cancelled are never left and no booking returns to draft.
C24_StatusTransitions ==
  [][ \A b \in bookings : \A after \in bookings' :
        (after.id = b.id /\ after.status # b.status)
          => <<b.status, after.status>> \in AllowedTransitions ]_vars

\* C25: updateBookingStatus(id, s) on an id no booking has fails with
\* 'Booking not found' and changes no booking; on an existing booking it
\* returns that booking with status s, and in the store that booking's
\* status is s while its other columns, every other booking, the line
\* items, the payments and every other table are as they were.
C25_UpdateBookingStatusFrame ==
  [][ (response' # response /\ response'.op = "updateBookingStatus") =>
        LET id == response'.input.id
            s == response'.input.status
        IN /\ IF \A b \in bookings : b.id # id
              THEN /\ response'.error = "Booking not found"
                   /\ response'.rows = <<>>
                   /\ bookings' = bookings
              ELSE /\ response'.error = ""
                   /\ Len(response'.rows) = 1
                   /\ response'.rows[1].id = id
                   /\ response'.rows[1].status = s
                   /\ response'.rows[1] \in bookings'
                   /\ \E b \in bookings :
                        /\ b.id = id
                        /\ response'.rows[1] = [b EXCEPT !.status = s]
                        /\ bookings' =
                             (bookings \ {b}) \cup { [b EXCEPT !.status = s] }
           /\ UNCHANGED <<customers, users, hotels, services,
                          hotelBookingDetails, serviceBookingDetails,
                          payments, rates, expenses>> ]_vars

\* The created booking was set to completed and returned so, while the
\* seeded bookings, the lines of the created booking and a payment are in
\* the store.
C25_Witness ==
  /\ response.op = "updateBookingStatus"
  /\ response.error = ""
  /\ response.rows[1].id = 3
  /\ response.rows[1].status = "completed"
  /\ \E b \in bookings : b.id = 3 /\ b.status = "completed"
  /\ \E b \in bookings : b.id = 1 /\ b.status = "confirmed"
  /\ hotelBookingDetails # {}
  /\ serviceBookingDetails # {}
  /\ payments # {}

\* ------------------------------------------------------ the exchange rates
\* C26: in every reachable state, two concurrent createCurrencyExchangeRate
\* calls for the same pair included, the table holds at most one rate for
\* an ordered pair (from_currency, to_currency).
C26_OneRatePerPair ==
  \A r1 \in rates : \A r2 \in rates :
    (r1.from_currency = r2.from_currency /\ r1.to_currency = r2.to_currency)
      => r1.id = r2.id

\* ---------------------------------------------------------------- deletes
Referenced(kind, id) ==
  IF kind = "customer" THEN \E b \in bookings : b.customer_id = id
  ELSE IF kind = "hotel" THEN \E d \in hotelBookingDetails : d.hotel_id = id
  ELSE \E d \in serviceBookingDetails : d.service_id = id

Present(kind, id) ==
  IF kind = "customer" THEN id \in customers
  ELSE IF kind = "hotel" THEN \E h \in hotels : h.id = id
  ELSE \E x \in services : x.id = id

\* C27: every booking references a customer that exists and every line a
\* hotel or a service that exists, under every interleaving of createBooking
\* with the deletes; a delete of a record that is referenced has failed and
\* left the record in place, a delete of a record that nothing references
\* has removed it.  (Bookings and lines are never removed, so a record
\* referenced when a delete ran is referenced now.)
C27_DeletesKeepReferences ==
  /\ \A b \in bookings : b.customer_id \in customers
  /\ \A d \in hotelBookingDetails : \E h \in hotels : h.id = d.hotel_id
  /\ \A d \in serviceBookingDetails : \E x \in services : x.id = d.service_id
  /\ \A kind \in DeleteKinds :
       (delCalls[kind].pc = "done" /\ delCalls[kind].id = 1) =>
         IF Referenced(kind, 1)
         THEN delCalls[kind].error # "" /\ Present(kind, 1)
         ELSE delCalls[kind].error \in {"", "not found"} /\ ~ Present(kind, 1)

\* deleteHotel found no line, createBooking then inserted its hotel line,
\* and the delete was rejected: the hotel is in place; and the service went
\* before any line referenced it.
C27_Witness ==
  /\ delCalls["hotel"].pc = "done"
  /\ delCalls["hotel"].error = "Storage error"
  /\ \E d \in hotelBookingDetails : d.hotel_id = 1
  /\ \E h \in hotels : h.id = 1
  /\ delCalls["service"].pc = "done"
  /\ delCalls["service"].error = ""
  /\ services = {}

\* --------------------------------------------------------------- expenses
\* C28: createExpense on a booking that does not exist fails and adds no
\* expense; a successful createExpense(b, a) adds one expense of amount a on
\* b, which lowers the profit the profit/loss report shows for b by a and
\* leaves the profit of every other booking as it was; and no step changes
\* or removes an expense.
C28_ExpenseLowersProfit ==
  [][ /\ expenses \subseteq expenses'
      /\ (response' # response /\ response'.op = "createExpense") =>
           LET req == response'.input
           IN IF \A b \in bookings : b.id # req.booking_id
              THEN response'.error # "" /\ expenses' = expenses
              ELSE /\ response'.error = ""
                   /\ \E e \in expenses' \ expenses :
                        /\ expenses' = expenses \cup {e}
                        /\ e.booking_id = req.booking_id
                        /\ e.amount = req.amount
                        /\ response'.rows = <<e>>
                   /\ \A b \in bookings :
                        ProfitLossRow(b).profit' =
                          ProfitLossRow(b).profit
                            - (IF b.id = req.booking_id THEN req.amount ELSE 0) ]_vars

\* An expense of 25.00 on the second booking has just been returned, after
\* an expense on the first booking.
C28_Witness ==
  /\ response.op = "createExpense"
  /\ response.error = ""
  /\ response.rows[1].booking_id = 2
  /\ response.rows[1] \in expenses
  /\ \E e \in expenses : e.booking_id = 1
  /\ ProfitLossRow(CHOOSE b \in bookings : b.id = 2).profit = 12500

\* -------------------------------------------------------------- dashboard
\* The sums a getDashboardStats call has read are those of the present store.
DashboardCurrent ==
  /\ dashCall.totalSellingPrice = SumOver([b \in bookings |-> b.total_selling_price])
  /\ dashCall.totalCostPrice = SumOver([b \in bookings |-> b.total_cost_price])
  /\ dashCall.totalExpenses = SumOver([e \in expenses |-> e.amount])
  /\ dashCall.totalPayments = SumOver([p \in payments |-> p.amount_in_sar])

\* C29: getDashboardStats never returns a negative outstanding_payments;
\* for the store it has read, outstanding_payments is the larger of 0 and
\* (sum of total_selling_price over the bookings - sum of amount_in_sar
\* over the payments), and total_profit is (sum of selling prices - sum of
\* cost prices - sum of expenses), which is the sum of the profit column of
\* the profit/loss report with no window.
C29_DashboardStats ==
  dashCall.pc = "done" =>
    /\ dashCall.outstanding_payments >= 0
    /\ DashboardCurrent =>
         LET selling == SumOver([b \in bookings |-> b.total_selling_price])
             cost == SumOver([b \in bookings |-> b.total_cost_price])
             paid == SumOver([p \in payments |-> p.amount_in_sar])
         IN /\ dashCall.outstanding_payments =
                 (IF selling - paid > 0 THEN selling - paid ELSE 0)
            /\ dashCall.total_profit =
                 selling - cost - SumOver([e \in expenses |-> e.amount])
            /\ dashCall.total_profit =
                 SumOver([r \in ProfitLossRows(Undefined, Undefined) |-> r.profit])

\* The dashboard has returned 0 outstanding for bookings sold at 750.00 in
\* all and paid 800.00, with an expense in the store.
C29_Witness ==
  /\ dashCall.pc = "done"
  /\ DashboardCurrent
  /\ dashCall.totalPayments = 80000
  /\ dashCall.totalSellingPrice = 75000
  /\ dashCall.outstanding_payments = 0
  /\ expenses # {}
  /\ dashCall.total_profit < -45000

\* ------------------------------------------------------------ getBookingById
\* C30: getBookingById(id) returns null for an id no booking has, and for a
\* booking only hotel and service lines of that booking; a call that
\* returns all the lines of the booking of a createBooking call that has
\* returned, returns one line for each line of the request, at the cost of
\* the master row times the rooms or the quantity.
C30_GetBookingById ==
  viewCall.pc = "done" =>
    /\ viewCall.id = MissingId => viewCall.null
    /\ ~ viewCall.null =>
         /\ viewCall.booking[1].id = viewCall.id
         /\ \A d \in viewCall.hotelBookings : d.booking_id = viewCall.id
         /\ \A d \in viewCall.serviceBookings : d.booking_id = viewCall.id
         /\ (/\ Returned(calls[1])
             /\ calls[1].booking[1].id = viewCall.id
             /\ viewCall.hotelBookings =
                  { d \in hotelBookingDetails : d.booking_id = viewCall.id }
             /\ viewCall.serviceBookings =
                  { d \in serviceBookingDetails : d.booking_id = viewCall.id })
            => /\ Cardinality(viewCall.hotelBookings) =
                    Len(calls[1].input.hotel_bookings)
               /\ Cardinality(viewCall.serviceBookings) =
                    Len(calls[1].input.services)
               /\ \A d \in viewCall.hotelBookings :
                    d.cost_price = SeedHotelCost * d.number_of_rooms
               /\ \A d \in viewCall.serviceBookings :
                    d.cost_price = SeedServiceCost * d.quantity

====
